---- MODULE Spec2Model ----
(***************************************************************************)
(* State-machine model of the dcversus/prp repository:                     *)
(*   - the service scaffold (templates/fastapi/app): users router, items   *)
(*     router and the protected endpoint of main.py;                       *)
(*   - the Health Feedback orchestrator (guidelines/EN/signals/HF);        *)
(*   - the batch generator (guidelines/EN/signals/generate_signals.py).    *)
(* Each subsystem has its own specification over the shared variables.     *)
(***************************************************************************)
EXTENDS Integers, Sequences, FiniteSets, TLC

VARIABLES
    users_db,           \* users.py:59   id -> user record
    users_by_username,  \* users.py:60   username -> id
    users_by_email,     \* users.py:61   email -> id
    next_id,            \* users.py:62   next user id
    tokens_db,          \* users.py:63   token -> [sub, expires_at]
    minted,             \* number of tokens drawn from secrets.token_urlsafe so far
    token_owner,        \* observer: token -> id of the account whose login minted it
    now,                \* datetime.now().timestamp(), in seconds
    resp,               \* the last users-router / protected-endpoint request and its response
    issued_user_ids,    \* observer: ids handed out by register_user so far
    items_db,           \* items.py:40   id -> Item
    items_next_id,      \* items.py:41   next item id
    item_resp,          \* the last items-router request and its response
    issued_item_ids,    \* observer: ids handed out by create_item so far
    health_history,     \* HF/orchestrator.py:18  self.health_history
    active_cycles,      \* HF/orchestrator.py:17  self.active_cycles
    n_calls,            \* handle_signal calls made so far on the orchestrator
    hf_calls,           \* handle_signal calls suspended in asyncio.gather
    health_checks,      \* _run_system_health_check tasks created and still running
    hf_resp,            \* what the last handle_signal call to return returned
    gen_i,              \* generate_signals.py:428  position of main's loop in SIGNALS
    gen_pc,             \* the statement of create_signal_folder main is at
    gen_files,          \* signal code -> the files written into its folder so far
    gen_errors,         \* codes for which main printed "Error creating ..."
    fn_call,            \* the call of an inspector, orchestrator or validator under analysis
    fn_ret              \* what that call returned (or raised), Pending before it ran

vars == <<users_db, users_by_username, users_by_email, next_id, tokens_db, minted, token_owner,
          now, resp, issued_user_ids, items_db, items_next_id, item_resp,
          issued_item_ids, health_history, active_cycles, n_calls, hf_calls,
          health_checks, hf_resp, gen_i, gen_pc, gen_files, gen_errors,
          fn_call, fn_ret>>

usersVars == <<users_db, users_by_username, users_by_email, next_id, tokens_db,
               minted, token_owner, resp, issued_user_ids>>
itemsVars == <<items_db, items_next_id, item_resp, issued_item_ids>>
hfVars == <<health_history, active_cycles, n_calls, hf_calls, health_checks, hf_resp>>
genVars == <<gen_i, gen_pc, gen_files, gen_errors>>
fnVars == <<fn_call, fn_ret>>

----------------------------------------------------------------------------
(* Bounds *)

MaxUserId == 3      \* register_user is offered while next_id <= MaxUserId
MaxTokens == 1      \* login mints at most this many tokens
MaxSmallTicks == 1  \* one-second clock steps taken after each whole-hour step
MaxNow == 3601      \* the clock stops advancing here

(* Program constants *)

DefaultExpiry == 3600   \* users.py:136  expires_delta or 3600

----------------------------------------------------------------------------
(* Values *)

None == "<None>"        \* Python None in a string-valued position
Unset == "<unset>"      \* a field left out of the request body (exclude_unset)
NoTime == -1            \* Python None in a timestamp position

Usernames == {"alice", "bob"}
Emails == {"a@x.io", "b@x.io"}
Passwords == {"pw1", "pw2"}

\* Truthiness of an Optional[str] as tested by `user.username and ...`
Truthy(s) == s \notin {None, Unset, ""}

\* dict helpers
Put(d, k, v) == [x \in (DOMAIN d) \cup {k} |-> IF x = k THEN v ELSE d[x]]
Del(d, k) == [x \in (DOMAIN d) \ {k} |-> d[x]]
EmptyDict == <<>>

\* passlib CryptContext: hash and verify (the salt plays no role in verify)
get_password_hash(password) == <<"bcrypt", password>>
verify_password(plain_password, hashed_password) ==
    hashed_password = get_password_hash(plain_password)

\* User(**user_data): pydantic rejects a record whose required str fields are None
UserModelValid(user_data) ==
    user_data.username # None /\ user_data.email # None

\* users.py:105  get_user_by_username: "none" | "invalid" (User(**..) raises) | "ok"
get_user_by_username(username) ==
    IF username \in DOMAIN users_by_username
          /\ users_by_username[username] # 0
          /\ users_by_username[username] \in DOMAIN users_db
    THEN IF UserModelValid(users_db[users_by_username[username]])
         THEN [found |-> "ok", id |-> users_by_username[username]]
         ELSE [found |-> "invalid", id |-> users_by_username[username]]
    ELSE [found |-> "none", id |-> 0]

\* A users-router request body; fields a request does not carry are Unset.
\* is_active travels as "True"/"False" and is stored as a BOOLEAN.
NoReq == [username |-> Unset, email |-> Unset, password |-> Unset, is_active |-> Unset]

\* The last request: operation and HTTP status; the id a register assigned, the
\* username a login presented, the token a login minted or a token request
\* carried (0 / Unset elsewhere)
Resp(op, status, id, username, token) ==
    [op |-> op, status |-> status, id |-> id, username |-> username,
     password |-> Unset, token |-> token]
LoginResp(status, user_credentials, token) ==
    [op |-> "login", status |-> status, id |-> 0,
     username |-> user_credentials.username,
     password |-> user_credentials.password, token |-> token]

----------------------------------------------------------------------------
(* Users router: templates/fastapi/app/routers/users.py *)

\* users.py:59-63 with no users.json on disk (load_users leaves the globals alone)
InitUsers ==
    /\ users_db = EmptyDict
    /\ users_by_username = EmptyDict
    /\ users_by_email = EmptyDict
    /\ next_id = 1
    /\ tokens_db = EmptyDict
    /\ minted = 0
    /\ token_owner = EmptyDict
    /\ resp = Resp("init", 200, 0, Unset, 0)
    /\ issued_user_ids = {}

\* users.py:160  POST /register.  A stored record carries the fields the handlers
\* read or compare; id, full_name, is_superuser and created_at are written once
\* here (full_name also by update) and never read back by any handler.
register_user(user) ==
    /\ next_id <= MaxUserId
    /\ IF user.username \in DOMAIN users_by_username
       THEN /\ resp' = Resp("register", 400, 0, Unset, 0)
            /\ UNCHANGED <<users_db, users_by_username, users_by_email, next_id,
                           issued_user_ids>>
       ELSE IF user.email \in DOMAIN users_by_email
       THEN /\ resp' = Resp("register", 400, 0, Unset, 0)
            /\ UNCHANGED <<users_db, users_by_username, users_by_email, next_id,
                           issued_user_ids>>
       ELSE /\ users_db' = Put(users_db, next_id,
                               [email |-> user.email,
                                username |-> user.username,
                                hashed_password |-> get_password_hash(user.password),
                                is_active |-> TRUE,
                                last_login |-> NoTime])
            /\ users_by_username' = Put(users_by_username, user.username, next_id)
            /\ users_by_email' = Put(users_by_email, user.email, next_id)
            /\ next_id' = next_id + 1
            /\ issued_user_ids' = issued_user_ids \cup {next_id}
            /\ resp' = Resp("register", 200, next_id, Unset, 0)
    /\ UNCHANGED <<tokens_db, minted, token_owner, now>>
    /\ UNCHANGED <<itemsVars, hfVars, genVars, fnVars>>

\* users.py:114  authenticate_user, as far as its effect on users_db goes:
\*   outcome "raise"  User(**user_data) failed validation
\*           "none"   unknown username or wrong password
\*           "ok"     last_login stamped, user returned
authenticate_user(username, password) ==
    LET u == get_user_by_username(username) IN
    IF u.found = "invalid" THEN [outcome |-> "raise", id |-> u.id, db |-> users_db]
    ELSE IF u.found = "none" THEN [outcome |-> "none", id |-> 0, db |-> users_db]
    ELSE LET user_id == users_by_username[username]
             user_data == users_db[user_id]
         IN IF ~verify_password(password, user_data.hashed_password)
            THEN [outcome |-> "none", id |-> user_id, db |-> users_db]
            ELSE [outcome |-> "ok", id |-> user_id,
                  db |-> Put(users_db, user_id, [user_data EXCEPT !.last_login = now])]

\* users.py:133  create_access_token(data={"sub": sub}); expires_delta is None
create_access_token(token, sub) ==
    Put(tokens_db, token, [sub |-> sub, expires_at |-> now + DefaultExpiry])

\* users.py:204  POST /login
login_user(user_credentials) ==
    /\ minted < MaxTokens
    /\ LET a == authenticate_user(user_credentials.username, user_credentials.password)
       IN /\ users_db' = a.db
          /\ IF a.outcome = "raise"
             THEN /\ resp' = LoginResp(500, user_credentials, 0)
                  /\ UNCHANGED <<tokens_db, minted, token_owner>>
             ELSE IF a.outcome = "none"
             THEN /\ resp' = LoginResp(401, user_credentials, 0)
                  /\ UNCHANGED <<tokens_db, minted, token_owner>>
             ELSE IF ~a.db[a.id].is_active
             THEN /\ resp' = LoginResp(400, user_credentials, 0)
                  /\ UNCHANGED <<tokens_db, minted, token_owner>>
             ELSE /\ tokens_db' = create_access_token(minted + 1, a.db[a.id].username)
                  /\ minted' = minted + 1
                  /\ token_owner' = Put(token_owner, minted + 1, a.id)
                  /\ resp' = LoginResp(200, user_credentials, minted + 1)
    /\ UNCHANGED <<users_by_username, users_by_email, next_id, issued_user_ids, now>>
    /\ UNCHANGED <<itemsVars, hfVars, genVars, fnVars>>

\* verify_token with the expiry test turned into >=: the token is already
\* refused at the very second of its expiry
verify_token_refusing_at_expiry(token) ==
    /\ IF token \notin DOMAIN tokens_db
       THEN /\ resp' = Resp("verify_token", 401, 0, Unset, token)
            /\ UNCHANGED tokens_db
       ELSE IF now >= tokens_db[token].expires_at
       THEN /\ tokens_db' = Del(tokens_db, token)
            /\ resp' = Resp("verify_token", 401, 0, Unset, token)
       ELSE /\ resp' = Resp("verify_token", 200, 0, tokens_db[token].sub, token)
            /\ UNCHANGED tokens_db
    /\ UNCHANGED <<users_db, users_by_username, users_by_email, next_id, minted, token_owner,
                   issued_user_ids, now>>
    /\ UNCHANGED <<itemsVars, hfVars, genVars, fnVars>>

\* users.py:146  verify_token
verify_token(token) ==
    /\ IF token \notin DOMAIN tokens_db
       THEN /\ resp' = Resp("verify_token", 401, 0, Unset, token)
            /\ UNCHANGED tokens_db
       ELSE IF now > tokens_db[token].expires_at
       THEN /\ tokens_db' = Del(tokens_db, token)
            /\ resp' = Resp("verify_token", 401, 0, Unset, token)
       ELSE /\ resp' = Resp("verify_token", 200, 0, tokens_db[token].sub, token)
            /\ UNCHANGED tokens_db
    /\ UNCHANGED <<users_db, users_by_username, users_by_email, next_id, minted, token_owner,
                   issued_user_ids, now>>
    /\ UNCHANGED <<itemsVars, hfVars, genVars, fnVars>>

\* users.py:229  GET /me  (current_user = Depends(get_user_by_username)): the
\* dependency takes `username` from the query string; neither the bearer
\* credentials nor tokens_db are read.  The response records the username
\* asked for and the id of the user returned (0 when none is).
read_users_me(username) ==
    /\ LET u == get_user_by_username(username)
       IN resp' = Resp("me", IF u.found = "ok" THEN 200
                             ELSE IF u.found = "none" THEN 401 ELSE 500,
                       IF u.found = "ok" THEN u.id ELSE 0, username, 0)
    /\ UNCHANGED <<users_db, users_by_username, users_by_email, next_id, tokens_db,
                   minted, token_owner, issued_user_ids, now>>
    /\ UNCHANGED <<itemsVars, hfVars, genVars, fnVars>>

\* users.py:249  GET /{user_id}
get_user(user_id) ==
    /\ resp' = Resp("get", IF user_id \notin DOMAIN users_db THEN 404
                           ELSE IF UserModelValid(users_db[user_id]) THEN 200 ELSE 500,
                    0, Unset, 0)
    /\ UNCHANGED <<users_db, users_by_username, users_by_email, next_id, tokens_db,
                   minted, token_owner, issued_user_ids, now>>
    /\ UNCHANGED <<itemsVars, hfVars, genVars, fnVars>>

\* users.py:267-276  the username part of update_user.
\*   status 0: carry on; 400: "Username already exists"; 500: KeyError from del
update_username_index(user_id, user, existing_user) ==
    IF Truthy(user.username) /\ user.username # existing_user.username
    THEN IF user.username \in DOMAIN users_by_username
         THEN [status |-> 400, index |-> users_by_username]
         ELSE IF existing_user.username \notin DOMAIN users_by_username
         THEN [status |-> 500, index |-> users_by_username]
         ELSE [status |-> 0,
               index |-> Put(Del(users_by_username, existing_user.username),
                             user.username, user_id)]
    ELSE [status |-> 0, index |-> users_by_username]

\* users.py:278-287  the email part of update_user
update_email_index(user_id, user, existing_user) ==
    IF Truthy(user.email) /\ user.email # existing_user.email
    THEN IF user.email \in DOMAIN users_by_email
         THEN [status |-> 400, index |-> users_by_email]
         ELSE IF existing_user.email \notin DOMAIN users_by_email
         THEN [status |-> 500, index |-> users_by_email]
         ELSE [status |-> 0,
               index |-> Put(Del(users_by_email, existing_user.email),
                             user.email, user_id)]
    ELSE [status |-> 0, index |-> users_by_email]

\* users.py:289-298  user.dict(exclude_unset=True) written over the stored record
apply_update_data(existing_user, user) ==
    [email |-> IF user.email # Unset THEN user.email ELSE existing_user.email,
     username |-> IF user.username # Unset THEN user.username
                  ELSE existing_user.username,
     hashed_password |-> IF user.password # Unset
                         THEN get_password_hash(user.password)
                         ELSE existing_user.hashed_password,
     is_active |-> IF user.is_active # Unset THEN user.is_active = "True"
                   ELSE existing_user.is_active,
     last_login |-> existing_user.last_login]

\* users.py:259  PUT /{user_id}
update_user(user_id, user) ==
    /\ IF user_id \notin DOMAIN users_db
       THEN /\ resp' = Resp("update", 404, 0, Unset, 0)
            /\ UNCHANGED <<users_db, users_by_username, users_by_email>>
       ELSE LET existing_user == users_db[user_id]
                un == update_username_index(user_id, user, existing_user)
                em == update_email_index(user_id, user, existing_user)
                updated == apply_update_data(existing_user, user)
            IN IF un.status # 0
               THEN /\ resp' = Resp("update", un.status, 0, Unset, 0)
                    /\ UNCHANGED <<users_db, users_by_username, users_by_email>>
               ELSE IF em.status # 0
               THEN \* raised after the username mapping was already rewritten
                    /\ users_by_username' = un.index
                    /\ resp' = Resp("update", em.status, 0, Unset, 0)
                    /\ UNCHANGED <<users_db, users_by_email>>
               ELSE /\ users_by_username' = un.index
                    /\ users_by_email' = em.index
                    /\ users_db' = Put(users_db, user_id, updated)
                    /\ resp' = Resp("update",
                                    IF UserModelValid(updated) THEN 200 ELSE 500,
                                    0, Unset, 0)
    /\ UNCHANGED <<next_id, tokens_db, minted, token_owner, issued_user_ids, now>>
    /\ UNCHANGED <<itemsVars, hfVars, genVars, fnVars>>

\* users.py:304  DELETE /{user_id}
delete_user(user_id) ==
    /\ IF user_id \notin DOMAIN users_db
       THEN /\ resp' = Resp("delete", 404, 0, Unset, 0)
            /\ UNCHANGED <<users_db, users_by_username, users_by_email>>
       ELSE LET user_data == users_db[user_id] IN
            IF user_data.username \notin DOMAIN users_by_username
            THEN \* KeyError at line 313
                 /\ resp' = Resp("delete", 500, 0, Unset, 0)
                 /\ UNCHANGED <<users_db, users_by_username, users_by_email>>
            ELSE IF user_data.email \notin DOMAIN users_by_email
            THEN \* KeyError at line 314, after line 313 took effect
                 /\ users_by_username' = Del(users_by_username, user_data.username)
                 /\ resp' = Resp("delete", 500, 0, Unset, 0)
                 /\ UNCHANGED <<users_db, users_by_email>>
            ELSE /\ users_by_username' = Del(users_by_username, user_data.username)
                 /\ users_by_email' = Del(users_by_email, user_data.email)
                 /\ users_db' = Del(users_db, user_id)
                 /\ resp' = Resp("delete", 200, 0, Unset, 0)
    /\ UNCHANGED <<next_id, tokens_db, minted, token_owner, issued_user_ids, now>>
    /\ UNCHANGED <<itemsVars, hfVars, genVars, fnVars>>

----------------------------------------------------------------------------
(* Items router: templates/fastapi/app/routers/items.py *)

MaxItemId == 2      \* create_item is offered while items_next_id <= MaxItemId

ItemFields == {"name", "description", "price", "category"}

\* An ItemUpdate body in which no field is set
NoItemBody ==
    [name |-> Unset, description |-> Unset, price |-> Unset, category |-> Unset]

ItemResp(op, status, id, body) ==
    [op |-> op, status |-> status, id |-> id, body |-> body]

\* items.py:40-41 with no items.json on disk
InitItems ==
    /\ items_db = EmptyDict
    /\ items_next_id = 1
    /\ item_resp = ItemResp("init", 200, 0, NoItemBody)
    /\ issued_item_ids = {}

\* create_item taking the id from the highest key in the store, as load_items does
create_item_from_max_key(item) ==
    LET id == IF DOMAIN items_db = {} THEN 1
              ELSE (CHOOSE k \in DOMAIN items_db : \A j \in DOMAIN items_db : k >= j) + 1
    IN
    /\ id <= MaxItemId
    /\ items_db' = Put(items_db, id,
                       [id |-> id,
                        name |-> item.name,
                        description |-> item.description,
                        price |-> item.price,
                        category |-> item.category,
                        created_at |-> now,
                        updated_at |-> now])
    /\ items_next_id' = id + 1
    /\ issued_item_ids' = issued_item_ids \cup {id}
    /\ item_resp' = ItemResp("create", 200, id, item)
    /\ UNCHANGED <<usersVars, hfVars, genVars, fnVars>>
    /\ UNCHANGED now

\* items.py:96  POST /.  (The list, search and category endpoints only read.)
create_item(item) ==
    /\ items_next_id <= MaxItemId
    /\ items_db' = Put(items_db, items_next_id,
                       [id |-> items_next_id,
                        name |-> item.name,
                        description |-> item.description,
                        price |-> item.price,
                        category |-> item.category,
                        created_at |-> now,
                        updated_at |-> now])
    /\ items_next_id' = items_next_id + 1
    /\ issued_item_ids' = issued_item_ids \cup {items_next_id}
    /\ item_resp' = ItemResp("create", 200, items_next_id, item)
    /\ UNCHANGED <<usersVars, hfVars, genVars, fnVars>>
    /\ UNCHANGED now

\* apply_item_update without exclude_unset: fields left out arrive as None
apply_item_update_all_fields(existing_item, item) ==
    [id |-> existing_item.id,
     name |-> IF item.name # Unset THEN item.name ELSE None,
     description |-> IF item.description # Unset THEN item.description ELSE None,
     price |-> IF item.price # Unset THEN item.price ELSE None,
     category |-> IF item.category # Unset THEN item.category ELSE None,
     created_at |-> existing_item.created_at,
     updated_at |-> now]

\* items.py:126-131  item.dict(exclude_unset=True) plus updated_at, set on the Item
apply_item_update(existing_item, item) ==
    [id |-> existing_item.id,
     name |-> IF item.name # Unset THEN item.name ELSE existing_item.name,
     description |-> IF item.description # Unset THEN item.description
                     ELSE existing_item.description,
     price |-> IF item.price # Unset THEN item.price ELSE existing_item.price,
     category |-> IF item.category # Unset THEN item.category
                  ELSE existing_item.category,
     created_at |-> existing_item.created_at,
     updated_at |-> now]

\* items.py:118  PUT /{item_id}
update_item(item_id, item) ==
    /\ IF item_id \notin DOMAIN items_db
       THEN /\ item_resp' = ItemResp("update", 404, item_id, item)
            /\ UNCHANGED items_db
       ELSE /\ items_db' = Put(items_db, item_id,
                               apply_item_update(items_db[item_id], item))
            /\ item_resp' = ItemResp("update", 200, item_id, item)
    /\ UNCHANGED <<items_next_id, issued_item_ids, now>>
    /\ UNCHANGED <<usersVars, hfVars, genVars, fnVars>>

\* items.py:137  DELETE /{item_id}
delete_item(item_id) ==
    /\ IF item_id \notin DOMAIN items_db
       THEN /\ item_resp' = ItemResp("delete", 404, item_id, NoItemBody)
            /\ UNCHANGED items_db
       ELSE /\ items_db' = Del(items_db, item_id)
            /\ item_resp' = ItemResp("delete", 200, item_id, NoItemBody)
    /\ UNCHANGED <<items_next_id, issued_item_ids, now>>
    /\ UNCHANGED <<usersVars, hfVars, genVars, fnVars>>

\* items.py:88  GET /{item_id}
get_item(item_id) ==
    /\ item_resp' = ItemResp("get", IF item_id \in DOMAIN items_db THEN 200 ELSE 404,
                             item_id, NoItemBody)
    /\ UNCHANGED <<items_db, items_next_id, issued_item_ids, now>>
    /\ UNCHANGED <<usersVars, hfVars, genVars, fnVars>>

----------------------------------------------------------------------------
(* main.py: the protected endpoint *)

\* main.py:57  get_current_user; credentials 0 stands for "no bearer credentials"
get_current_user(credentials) ==
    IF credentials = 0 THEN 0 ELSE credentials

\* main.py:98  GET /api/v1/protected
protected_route(credentials) ==
    /\ resp' = Resp("protected",
                    IF get_current_user(credentials) = 0 THEN 401 ELSE 200,
                    0, Unset, credentials)
    /\ UNCHANGED <<users_db, users_by_username, users_by_email, next_id, tokens_db,
                   minted, token_owner, issued_user_ids, now>>
    /\ UNCHANGED <<itemsVars, hfVars, genVars, fnVars>>

\* The wall clock moves between requests: by a whole expiry period, or by one
\* second at a time just after such a step.
TickBy(steps) ==
    /\ \E d \in steps :
          /\ now + d <= MaxNow
          /\ d = 1 => (now % DefaultExpiry) < MaxSmallTicks
          /\ now' = now + d
    /\ resp' = Resp("tick", 200, 0, Unset, 0)
    /\ item_resp' = [op |-> "tick", status |-> 200, id |-> 0, body |-> NoItemBody]
    /\ UNCHANGED <<users_db, users_by_username, users_by_email, next_id, tokens_db,
                   minted, token_owner, issued_user_ids>>
    /\ UNCHANGED <<items_db, items_next_id, issued_item_ids>>
    /\ UNCHANGED <<hfVars, genVars, fnVars>>

Tick == TickBy({1, DefaultExpiry})
TickHour == TickBy({DefaultExpiry})

----------------------------------------------------------------------------
(* Health Feedback orchestrator: src/guidelines/EN/signals/HF/orchestrator.py *)

MaxCalls == 2        \* handle_signal calls made on one orchestrator
MaxHistCalls == 101  \* the same, in the runs that fill the history
PrefillCalls == 99   \* of which this many are plain feedback, made first
MaxHFNow == 1        \* the clock readings 0..MaxHFNow are seen by the orchestrator

HistoryLimit == 100  \* orchestrator.py:142-143

\* The awaitables handed to asyncio.gather, in call order (orchestrator.py:87-91)
InitComponents == <<"scanner", "inspector", "agents">>

\* orchestrator.py:161-177  what _initialize_<component> returns
InitResult(k) == [component |-> InitComponents[k], status |-> "initialized"]

\* A payload as handle_signal reads it: signal_id, classification.priority,
\* analysis.cycle_stage and analysis.health_indicators.system_status
HFPayloads(signal_id) ==
    [signal_id : {signal_id},
     priority : {70, 71},
     cycle_stage : {"initialization", "unknown"},
     system_status : {"healthy", "unhealthy"}]

PlainFeedback(signal_id) ==
    [signal_id |-> signal_id, priority |-> 30, cycle_stage |-> "unknown",
     system_status |-> "healthy"]

NoHFResp ==
    [signal_id |-> 0, action |-> "none", initialization_results |-> <<>>,
     completion_order |-> <<>>, admin_notification |-> FALSE]

\* orchestrator.py:15-18  __init__
InitHF ==
    /\ health_history = <<>>
    /\ active_cycles = EmptyDict
    /\ n_calls = 0
    /\ hf_calls = EmptyDict
    /\ health_checks = 0
    /\ hf_resp = NoHFResp

\* _log_health_feedback keeping the first HistoryLimit entries instead of the last
log_health_feedback_keep_oldest(history, payload) ==
    LET appended == Append(history,
                           [timestamp |-> now,
                            signal_id |-> payload.signal_id,
                            priority |-> payload.priority,
                            health_status |-> payload.system_status])
    IN IF Len(appended) > HistoryLimit
       THEN SubSeq(appended, 1, HistoryLimit)
       ELSE appended

\* orchestrator.py:132  _log_health_feedback
log_health_feedback(history, payload) ==
    LET appended == Append(history,
                           [timestamp |-> now,
                            signal_id |-> payload.signal_id,
                            priority |-> payload.priority,
                            health_status |-> payload.system_status])
    IN IF Len(appended) > HistoryLimit
       THEN SubSeq(appended, Len(appended) - HistoryLimit + 1, Len(appended))
       ELSE appended

\* asyncio.gather handing back results in the order the tasks finished
gather_in_completion_order(completion_order) ==
    [k \in 1..Len(completion_order) |-> InitResult(completion_order[k])]

\* orchestrator.py:93  asyncio.gather(*initialization_tasks): one result per
\* awaitable, in the order the awaitables were passed
gather(completion_order) ==
    [k \in 1..Len(InitComponents) |-> InitResult(k)]

\* handle_signal testing the cycle stage before the priority
handle_signal_stage_first(payload) ==
    /\ n_calls' = n_calls + 1
    /\ health_history' = log_health_feedback(health_history, payload)
    /\ IF payload.cycle_stage = "initialization"
       THEN \* _handle_cycle_start up to the await (lines 72-93)
            /\ active_cycles' = Put(active_cycles, now,
                                    [start_time |-> now,
                                     signal_id |-> payload.signal_id,
                                     status |-> "initializing",
                                     health_feedback |-> payload])
            /\ hf_calls' = Put(hf_calls, n_calls + 1,
                               [signal_id |-> payload.signal_id,
                                cycle_id |-> now,
                                launched |-> DOMAIN InitComponents,
                                completion_order |-> <<>>])
            /\ UNCHANGED <<health_checks, hf_resp>>
       ELSE IF payload.priority > 70
       THEN \* _handle_high_priority_health_feedback (lines 44-70)
            /\ health_checks' = health_checks + 1
            /\ hf_resp' = [NoHFResp EXCEPT
                              !.signal_id = payload.signal_id,
                              !.action = "high_priority_health_feedback_initiated",
                              !.admin_notification =
                                  (payload.system_status = "unhealthy")]
            /\ UNCHANGED <<active_cycles, hf_calls>>
       ELSE \* _handle_regular_health_feedback (lines 110-130)
            /\ hf_resp' = [NoHFResp EXCEPT
                              !.signal_id = payload.signal_id,
                              !.action = "health_feedback_logged"]
            /\ UNCHANGED <<active_cycles, hf_calls, health_checks>>
    /\ UNCHANGED <<usersVars, itemsVars, genVars, now, fnVars>>

\* orchestrator.py:20  handle_signal, from its entry to its first suspension or,
\* on the branches that never suspend, to its return
handle_signal(payload) ==
    /\ n_calls' = n_calls + 1
    /\ health_history' = log_health_feedback(health_history, payload)
    /\ IF payload.priority > 70
       THEN \* _handle_high_priority_health_feedback (lines 44-70)
            /\ health_checks' = health_checks + 1
            /\ hf_resp' = [NoHFResp EXCEPT
                              !.signal_id = payload.signal_id,
                              !.action = "high_priority_health_feedback_initiated",
                              !.admin_notification =
                                  (payload.system_status = "unhealthy")]
            /\ UNCHANGED <<active_cycles, hf_calls>>
       ELSE IF payload.cycle_stage = "initialization"
       THEN \* _handle_cycle_start up to the await (lines 72-93)
            /\ active_cycles' = Put(active_cycles, now,
                                    [start_time |-> now,
                                     signal_id |-> payload.signal_id,
                                     status |-> "initializing",
                                     health_feedback |-> payload])
            /\ hf_calls' = Put(hf_calls, n_calls + 1,
                               [signal_id |-> payload.signal_id,
                                cycle_id |-> now,
                                launched |-> DOMAIN InitComponents,
                                completion_order |-> <<>>])
            /\ UNCHANGED <<health_checks, hf_resp>>
       ELSE \* _handle_regular_health_feedback (lines 110-130)
            /\ hf_resp' = [NoHFResp EXCEPT
                              !.signal_id = payload.signal_id,
                              !.action = "health_feedback_logged"]
            /\ UNCHANGED <<active_cycles, hf_calls, health_checks>>
    /\ UNCHANGED <<usersVars, itemsVars, genVars, now, fnVars>>

\* orchestrator.py:161-177  one of the launched _initialize_* tasks wakes from its
\* sleep and returns
initialize_component(c, k) ==
    /\ c \in DOMAIN hf_calls
    /\ k \in hf_calls[c].launched
    /\ \A n \in DOMAIN hf_calls[c].completion_order : hf_calls[c].completion_order[n] # k
    /\ hf_calls' = [hf_calls EXCEPT ![c].completion_order = Append(@, k)]
    /\ UNCHANGED <<health_history, active_cycles, n_calls, health_checks, hf_resp>>
    /\ UNCHANGED <<usersVars, itemsVars, genVars, now, fnVars>>

\* orchestrator.py:93-108  gather completes once every awaitable has, and
\* _handle_cycle_start (and with it handle_signal) returns
cycle_start_return(c) ==
    /\ c \in DOMAIN hf_calls
    /\ Len(hf_calls[c].completion_order) = Cardinality(hf_calls[c].launched)
    /\ hf_resp' = [NoHFResp EXCEPT
                      !.signal_id = hf_calls[c].signal_id,
                      !.action = "orchestration_cycle_started",
                      !.initialization_results = gather(hf_calls[c].completion_order),
                      !.completion_order = hf_calls[c].completion_order]
    /\ hf_calls' = Del(hf_calls, c)
    /\ UNCHANGED <<health_history, active_cycles, n_calls, health_checks>>
    /\ UNCHANGED <<usersVars, itemsVars, genVars, now, fnVars>>

\* orchestrator.py:155  a _run_system_health_check task finishes
run_system_health_check ==
    /\ health_checks > 0
    /\ health_checks' = health_checks - 1
    /\ UNCHANGED <<health_history, active_cycles, n_calls, hf_calls, hf_resp>>
    /\ UNCHANGED <<usersVars, itemsVars, genVars, now, fnVars>>

\* datetime.now() read by the orchestrator moves on
HFTick ==
    /\ now < MaxHFNow
    /\ now' = now + 1
    /\ UNCHANGED <<usersVars, itemsVars, hfVars, genVars, fnVars>>

----------------------------------------------------------------------------
(* Batch generator: src/guidelines/EN/signals/generate_signals.py *)

\* generate_signals.py:13-79  the registry, in dict order
SIGNALS ==
    <<[code |-> "HF", priority |-> 3, category |-> "system"],
     [code |-> "pr", priority |-> 4, category |-> "development"],
     [code |-> "PR", priority |-> 5, category |-> "development"],
     [code |-> "FF", priority |-> 10, category |-> "system"],
     [code |-> "TF", priority |-> 1, category |-> "system"],
     [code |-> "bb", priority |-> 8, category |-> "coordination"],
     [code |-> "af", priority |-> 4, category |-> "communication"],
     [code |-> "gg", priority |-> 6, category |-> "analysis"],
     [code |-> "ff", priority |-> 7, category |-> "analysis"],
     [code |-> "da", priority |-> 5, category |-> "coordination"],
     [code |-> "no", priority |-> 6, category |-> "analysis"],
     [code |-> "rp", priority |-> 4, category |-> "development"],
     [code |-> "vr", priority |-> 7, category |-> "testing"],
     [code |-> "rr", priority |-> 6, category |-> "analysis"],
     [code |-> "vp", priority |-> 5, category |-> "testing"],
     [code |-> "ip", priority |-> 5, category |-> "development"],
     [code |-> "er", priority |-> 6, category |-> "development"],
     [code |-> "tp", priority |-> 4, category |-> "testing"],
     [code |-> "dp", priority |-> 4, category |-> "development"],
     [code |-> "br", priority |-> 3, category |-> "coordination"],
     [code |-> "rc", priority |-> 3, category |-> "analysis"],
     [code |-> "tw", priority |-> 4, category |-> "testing"],
     [code |-> "bf", priority |-> 5, category |-> "development"],
     [code |-> "cq", priority |-> 3, category |-> "testing"],
     [code |-> "cp", priority |-> 3, category |-> "deployment"],
     [code |-> "tr", priority |-> 7, category |-> "testing"],
     [code |-> "tg", priority |-> 2, category |-> "testing"],
     [code |-> "cf", priority |-> 8, category |-> "deployment"],
     [code |-> "pc", priority |-> 4, category |-> "deployment"],
     [code |-> "rg", priority |-> 4, category |-> "coordination"],
     [code |-> "cd", priority |-> 2, category |-> "deployment"],
     [code |-> "rv", priority |-> 3, category |-> "testing"],
     [code |-> "iv", priority |-> 4, category |-> "testing"],
     [code |-> "ra", priority |-> 6, category |-> "deployment"],
     [code |-> "mg", priority |-> 3, category |-> "deployment"],
     [code |-> "rl", priority |-> 4, category |-> "deployment"],
     [code |-> "ps", priority |-> 3, category |-> "deployment"],
     [code |-> "ic", priority |-> 9, category |-> "incident"],
     [code |-> "JC", priority |-> 10, category |-> "incident"],
     [code |-> "pm", priority |-> 5, category |-> "incident"],
     [code |-> "oa", priority |-> 7, category |-> "coordination"],
     [code |-> "aa", priority |-> 8, category |-> "communication"],
     [code |-> "ap", priority |-> 5, category |-> "communication"],
     [code |-> "du", priority |-> 3, category |-> "design"],
     [code |-> "ds", priority |-> 4, category |-> "design"],
     [code |-> "dr", priority |-> 5, category |-> "design"],
     [code |-> "dh", priority |-> 4, category |-> "design"],
     [code |-> "df", priority |-> 4, category |-> "design"],
     [code |-> "di", priority |-> 6, category |-> "design"],
     [code |-> "dt", priority |-> 3, category |-> "testing"]>>

SignalCodes == {SIGNALS[k].code : k \in DOMAIN SIGNALS}

\* The names in scope inside create_signal_folder while its templates are built
ScopeNames == {"signal_code", "signal_info", "base_path", "folder_path", "os"}

\* The names each f-string template evaluates in its replacement fields
\* (scanner 87-145, inspector 148-248, orchestrator 251-332, document 335-407);
\* line 215 of the inspector template has the single-brace field {self.signal_code}
TemplateNames ==
    [scanner_content |-> {"signal_code", "signal_info"},
     inspector_content |-> {"signal_code", "signal_info", "self"},
     orchestrator_content |-> {"signal_code", "signal_info"},
     inspector_md_content |-> {"signal_code", "signal_info"}]

\* Evaluating an f-string raises NameError when a field names something not in scope
RendersWithoutFault(template) == TemplateNames[template] \subseteq ScopeNames

\* The statements of create_signal_folder in program order, and for the write
\* statements the file each one writes
GenSteps ==
    <<"makedirs", "scanner_content", "inspector_content", "orchestrator_content",
      "inspector_md_content", "write_scanner", "write_inspector",
      "write_orchestrator", "write_inspector_md">>

WrittenFile ==
    [write_scanner |-> "scanner.py", write_inspector |-> "inspector.py",
     write_orchestrator |-> "orchestrator.py", write_inspector_md |-> "inspector.md"]

FourFiles == {"scanner.py", "inspector.py", "orchestrator.py", "inspector.md"}

StepAfter(step) ==
    LET k == CHOOSE n \in DOMAIN GenSteps : GenSteps[n] = step
    IN IF k = Len(GenSteps) THEN "return" ELSE GenSteps[k + 1]

\* The files the run has written into the folder of a signal code so far
FilesIn(code) == IF code \in DOMAIN gen_files THEN gen_files[code] ELSE {}

\* generate_signals.py:424  main, before its loop starts
InitGen ==
    /\ gen_i = 1
    /\ gen_pc = "makedirs"
    /\ gen_files = EmptyDict
    /\ gen_errors = {}

\* generate_signals.py:81-422  one statement of create_signal_folder, run under
\* main's try (lines 429-432):
\*   makedirs      os.makedirs(folder_path, exist_ok=True)
\*   *_content     a template assignment; a fault leaves create_signal_folder and
\*                 lands in main's except clause, which prints and lets the loop
\*                 go on to the next entry
\*   write_*       with open(...) as f: f.write(...)
\*   return        create_signal_folder returns and the loop moves on
create_signal_folder ==
    /\ gen_i <= Len(SIGNALS)
    /\ gen_pc # "done"
    /\ IF gen_pc = "makedirs"
       THEN /\ gen_pc' = StepAfter(gen_pc)
            /\ UNCHANGED <<gen_i, gen_files, gen_errors>>
       ELSE IF gen_pc \in DOMAIN TemplateNames
       THEN IF RendersWithoutFault(gen_pc)
            THEN /\ gen_pc' = StepAfter(gen_pc)
                 /\ UNCHANGED <<gen_i, gen_files, gen_errors>>
            ELSE /\ gen_errors' = gen_errors \cup {SIGNALS[gen_i].code}
                 /\ gen_i' = gen_i + 1
                 /\ gen_pc' = "makedirs"
                 /\ UNCHANGED gen_files
       ELSE IF gen_pc \in DOMAIN WrittenFile
       THEN /\ gen_files' = Put(gen_files, SIGNALS[gen_i].code,
                                 FilesIn(SIGNALS[gen_i].code) \cup {WrittenFile[gen_pc]})
            /\ gen_pc' = StepAfter(gen_pc)
            /\ UNCHANGED <<gen_i, gen_errors>>
       ELSE /\ gen_i' = gen_i + 1
            /\ gen_pc' = "makedirs"
            /\ UNCHANGED <<gen_files, gen_errors>>
    /\ UNCHANGED <<usersVars, itemsVars, hfVars, now, fnVars>>

\* generate_signals.py:434  the loop is over; main prints the total and ends
main_finish ==
    /\ gen_i = Len(SIGNALS) + 1
    /\ gen_pc = "makedirs"
    /\ gen_pc' = "done"
    /\ UNCHANGED <<gen_i, gen_files, gen_errors>>
    /\ UNCHANGED <<usersVars, itemsVars, hfVars, now, fnVars>>

----------------------------------------------------------------------------
(* Specifications *)

\* Request bodies offered to the users router
UserCreateBodies ==
    [username : Usernames, email : Emails, password : {"pw1"}, is_active : {Unset}]
UserLoginBodies == [username : Usernames, password : Passwords]
UserUpdateBodies ==
    [username : {Unset, "", "carol"},
     email : Emails \cup {Unset},
     password : {Unset},
     is_active : {Unset, "False"}]
UserIds == 1..MaxUserId
BearerTokens == 0..(MaxTokens + 1)

\* Request bodies offered to the items router
ItemCreateBodies ==
    [name : {"pen"}, description : {"blue"}, price : {None, "1.50"},
     category : {"office"}]
ItemUpdateBodies ==
    [name : {Unset, "pencil"}, description : {Unset, None}, price : {Unset, "2.50"},
     category : {Unset}]
PlainItem ==
    [name |-> "pen", description |-> None, price |-> None, category |-> None]
ItemIds == 1..MaxItemId

(* No inspector, orchestrator or validator call is under analysis. *)
NoCall == [fn |-> "none"]
Pending == [status |-> "pending"]
InitFn ==
    /\ fn_call = NoCall
    /\ fn_ret = Pending

InitPrograms ==
    /\ InitUsers
    /\ InitItems
    /\ InitHF
    /\ InitGen
    /\ now = 0

Init ==
    /\ InitPrograms
    /\ InitFn

Register == \E user \in UserCreateBodies : register_user(user)
Login == \E c \in UserLoginBodies : login_user(c)
VerifyToken == \E t \in 1..MaxTokens : verify_token(t)
ReadUsersMe == \E u \in Usernames : read_users_me(u)
GetUser == \E i \in UserIds : get_user(i)
UpdateUser == \E i \in UserIds, user \in UserUpdateBodies : update_user(i, user)
DeleteUser == \E i \in UserIds : delete_user(i)
Protected == \E c \in BearerTokens : protected_route(c)

Next ==
    \/ Register
    \/ Login
    \/ ReadUsersMe
    \/ GetUser
    \/ UpdateUser
    \/ DeleteUser

Spec == Init /\ [][Next]_vars

\* Login, token checks and the protected endpoint under a moving clock
NextAuth ==
    \/ Register
    \/ Login
    \/ VerifyToken
    \/ Protected
    \/ Tick

SpecAuth == Init /\ [][NextAuth]_vars

\* The items router under a moving clock
CreateItem == \E item \in ItemCreateBodies : create_item(item)
UpdateItem == \E i \in ItemIds, item \in ItemUpdateBodies : update_item(i, item)
DeleteItem == \E i \in ItemIds : delete_item(i)
GetItem == \E i \in ItemIds : get_item(i)

NextItems ==
    \/ CreateItem
    \/ UpdateItem
    \/ DeleteItem
    \/ GetItem
    \/ TickHour

SpecItems == Init /\ [][NextItems]_vars

\* Creation and deletion in both routers of one process
CreatePlainItem == create_item(PlainItem)

NextIds ==
    \/ CreatePlainItem
    \/ DeleteItem
    \/ Register
    \/ DeleteUser

SpecIds == Init /\ [][NextIds]_vars

\* One Health Feedback orchestrator taking calls that interleave at the await
HandleSignal ==
    /\ n_calls < MaxCalls
    /\ \E payload \in HFPayloads(n_calls + 1) : handle_signal(payload)
InitializeComponent ==
    \E c \in DOMAIN hf_calls, k \in DOMAIN InitComponents : initialize_component(c, k)
CycleStartReturn == \E c \in DOMAIN hf_calls : cycle_start_return(c)

NextHF ==
    \/ HandleSignal
    \/ InitializeComponent
    \/ CycleStartReturn
    \/ run_system_health_check
    \/ HFTick

SpecHF == Init /\ [][NextHF]_vars

\* The same orchestrator taking more calls than its history holds: plain
\* feedback first, then calls of every kind
HandleSignalFilling ==
    /\ n_calls < MaxHistCalls
    /\ \E payload \in (IF n_calls < PrefillCalls THEN {PlainFeedback(n_calls + 1)}
                        ELSE HFPayloads(n_calls + 1)) : handle_signal(payload)

NextHFHistory ==
    \/ HandleSignalFilling
    \/ InitializeComponent
    \/ CycleStartReturn
    \/ run_system_health_check

SpecHFHistory == Init /\ [][NextHFHistory]_vars

\* One run of the batch generator
NextGen ==
    \/ create_signal_folder
    \/ main_finish

SpecGen == Init /\ [][NextGen]_vars

----------------------------------------------------------------------------
(* Users router: properties *)

StoredUsers == DOMAIN users_db

\* C1: no two user records in the user store have the same username, and no two
\* have the same email.
C1_UniqueUsernameAndEmail ==
    \A i, j \in StoredUsers :
        i # j => /\ users_db[i].username # users_db[j].username
                 /\ users_db[i].email # users_db[j].email

\* C2: the username index and the email index each hold exactly one entry per
\* stored user, keyed by the username (resp. email) written in the user's record
\* and mapping to the user's id; a delete of an existing user therefore finds both
\* entries and never fails on a missing key.
C2_IndexesMirrorRecords ==
    /\ DOMAIN users_by_username = {users_db[i].username : i \in StoredUsers}
    /\ DOMAIN users_by_email = {users_db[i].email : i \in StoredUsers}
    /\ \A i \in StoredUsers :
          /\ users_by_username[users_db[i].username] = i
          /\ users_by_email[users_db[i].email] = i
    /\ ~(resp.op = "delete" /\ resp.status = 500)

\* C3: a users-router request answered 400, 401 or 404 leaves the user map, both
\* indexes and the token store as they were before the request.
C3_ErrorLeavesStateUnchanged ==
    [][resp'.status \in {400, 401, 404}
         => UNCHANGED <<users_db, users_by_username, users_by_email, tokens_db>>]_vars

\* C7: a login adds a token only when the presented username is the username of a
\* stored user whose hash verifies the presented password and who is active; the
\* token added maps to that username and expires DefaultExpiry seconds after
\* minting; a 401 or 400 login adds no token.
C7_LoginMintsOnlyForValidUser ==
    [][resp'.op = "login" =>
         /\ resp'.status # 200 => tokens_db' = tokens_db
         /\ tokens_db' # tokens_db =>
              /\ resp'.status = 200
              /\ \E i \in StoredUsers :
                    /\ users_db[i].username = resp'.username
                    /\ verify_password(resp'.password, users_db[i].hashed_password)
                    /\ users_db[i].is_active
              /\ tokens_db' = Put(tokens_db, resp'.token,
                                  [sub |-> resp'.username,
                                   expires_at |-> now + DefaultExpiry])]_vars

\* C6: the protected endpoint answers 200 exactly when the request carries a token
\* that is in the token store and has not passed its expiry, and 401 otherwise
\* (no token, unknown token, expired token).
TokenValid(token) ==
    /\ token \in DOMAIN tokens_db
    /\ now <= tokens_db[token].expires_at

C6_ProtectedRequiresValidToken ==
    resp.op = "protected" =>
        resp.status = (IF TokenValid(resp.token) THEN 200 ELSE 401)

----------------------------------------------------------------------------
(* Items router: properties *)

\* C8: an update of an existing item changes only the supplied fields and
\* updated_at: id, created_at and every field not supplied keep their values and
\* every other item is unchanged; an update of an absent id answers 404 and leaves
\* the item store unchanged.
C8_UpdateItemFrame ==
    [][item_resp'.op = "update" =>
         LET i == item_resp'.id
             body == item_resp'.body
         IN IF i \in DOMAIN items_db
            THEN /\ item_resp'.status = 200
                 /\ DOMAIN items_db' = DOMAIN items_db
                 /\ \A j \in DOMAIN items_db : j # i => items_db'[j] = items_db[j]
                 /\ items_db'[i].id = items_db[i].id
                 /\ items_db'[i].created_at = items_db[i].created_at
                 /\ items_db'[i].updated_at = now
                 /\ \A f \in ItemFields :
                       items_db'[i][f] = IF body[f] = Unset THEN items_db[i][f]
                                         ELSE body[f]
            ELSE /\ item_resp'.status = 404
                 /\ items_db' = items_db]_vars

\* a price-only update of one of two stored items, made after the clock moved
C8_Witness ==
    /\ item_resp.op = "update"
    /\ item_resp.status = 200
    /\ item_resp.body.price # Unset
    /\ item_resp.body.name = Unset
    /\ Cardinality(DOMAIN items_db) = 2
    /\ items_db[item_resp.id].name = "pen"
    /\ items_db[item_resp.id].updated_at > items_db[item_resp.id].created_at

\* C9: within one process the ids assigned by item create and by user register
\* are strictly increasing: each newly assigned id is larger than every id
\* assigned before, whether or not those records still exist.
C9_IdsStrictlyIncrease ==
    [][/\ (item_resp'.op = "create" /\ items_db' # items_db) =>
             /\ item_resp'.id \in DOMAIN items_db'
             /\ \A j \in issued_item_ids : item_resp'.id > j
       /\ (resp'.op = "register" /\ resp'.status = 200 /\ users_db' # users_db) =>
             /\ resp'.id \in DOMAIN users_db'
             /\ \A j \in issued_user_ids : resp'.id > j]_vars

\* item 1 and user 1 (each the highest id of its store at the time) were deleted,
\* and a later create and register were given id 2
C9_Witness ==
    /\ item_resp.op = "create" /\ item_resp.id = 2 /\ DOMAIN items_db = {2}
    /\ resp.op = "register" /\ resp.id = 2 /\ DOMAIN users_db = {2}

----------------------------------------------------------------------------
(* Health Feedback orchestrator: properties *)

\* C4: after n handle_signal calls, sequential or interleaved at the await, the
\* health history holds exactly min(n, 100) entries, they are the most recent
\* ones in arrival order, and its length never exceeds 100.  (Calls carry their
\* arrival number as signal_id.)
C4_HistoryHoldsMostRecent ==
    /\ Len(health_history) = (IF n_calls < 100 THEN n_calls ELSE 100)
    /\ \A k \in 1..Len(health_history) :
          health_history[k].signal_id = n_calls - Len(health_history) + k

\* the 101st call arrived, evicting the first entry, while the 100th call is
\* still suspended in its gather
C4_Witness ==
    /\ n_calls = 101
    /\ 100 \in DOMAIN hf_calls
    /\ Len(health_history) = 100
    /\ health_history[1].signal_id = 2

\* C10: on cycle start the three component initializations are launched
\* together, handle_signal returns only after all three have finished, and
\* initialization_results lists scanner, inspector, agents in that order
\* whatever order they finished in.
C10_GatherJoinsAllInCallOrder ==
    /\ \A c \in DOMAIN hf_calls : hf_calls[c].launched = {1, 2, 3}
    /\ hf_resp.action = "orchestration_cycle_started" =>
          /\ {hf_resp.completion_order[n] : n \in DOMAIN hf_resp.completion_order}
                = {1, 2, 3}
          /\ hf_resp.initialization_results =
                <<[component |-> "scanner", status |-> "initialized"],
                  [component |-> "inspector", status |-> "initialized"],
                  [component |-> "agents", status |-> "initialized"]>>

\* a cycle start has returned whose agents task finished first and whose
\* scanner task finished last
C10_Witness ==
    /\ hf_resp.action = "orchestration_cycle_started"
    /\ hf_resp.completion_order = <<3, 2, 1>>

----------------------------------------------------------------------------
(* Batch generator: properties *)

\* C5: when the batch generator has run over the whole registry, every entry's
\* folder holds exactly the four files scanner.py, inspector.py, orchestrator.py
\* and inspector.md, and every entry was visited even where an earlier one
\* faulted.
C5_FourFilesForEveryEntry ==
    gen_pc = "done" =>
        /\ gen_i = Len(SIGNALS) + 1
        /\ \A c \in SignalCodes : FilesIn(c) = FourFiles


----------------------------------------------------------------------------
(* Signal texts                                                            *)
(*                                                                         *)
(* The inspectors only ever ask of a text whether a keyword occurs in its  *)
(* lower-cased form.  A text is modelled as the set of phrases it is made  *)
(* of (joined by punctuation), text1 + ' ' + text2 as the union, and a     *)
(* keyword occurs in a text exactly when it occurs in one of its phrases;  *)
(* the occurrences of the code's keywords in each phrase are tabulated.    *)

MaxPhrases == 2     \* a text is made of at most this many phrases

Texts(phrases) == {t \in SUBSET phrases : Cardinality(t) <= MaxPhrases}
Min2(a, b) == IF a <= b THEN a ELSE b
Max2(a, b) == IF a >= b THEN a ELSE b
MinOf(S) == CHOOSE x \in S : \A y \in S : x <= y

----------------------------------------------------------------------------
(* System Fatal Error inspector: guidelines/EN/signals/FF/inspector.py     *)

FFContextPhrases == {"complete outage", "critical load", "partial outage", "kernel panic"}
FFLogPhrases ==
    {"out of memory", "data corruption", "database corruption", "kernel panic",
     "fatal error", "security breach", "network down", "disk failure",
     "service crash", "power failure", "damaged database", "inconsistent index",
     "backup verified", "emergency shutdown"}

(* The keywords of the inspector's lists that occur in each phrase. *)
FFKeywordsIn(phrase) ==
    CASE phrase = "[FF]" -> {}
      [] phrase = "complete outage" -> {"complete"}
      [] phrase = "critical load" -> {"critical"}
      [] phrase = "partial outage" -> {"partial"}
      [] phrase = "out of memory" -> {"out of memory"}
      [] phrase = "data corruption" -> {"data corruption", "corruption", "corrupt", "data"}
      [] phrase = "database corruption" ->
            {"database corruption", "corruption", "corrupt", "database", "data"}
      [] phrase = "kernel panic" -> {"kernel panic"}
      [] phrase = "fatal error" -> {"fatal error", "fatal"}
      [] phrase = "security breach" -> {"security breach"}
      [] phrase = "network down" -> {"network down"}
      [] phrase = "disk failure" -> {"disk failure"}
      [] phrase = "service crash" -> {"service crash"}
      [] phrase = "power failure" -> {"power failure"}
      [] phrase = "damaged database" -> {"damaged", "database", "data"}
      [] phrase = "inconsistent index" -> {"inconsistent"}
      [] phrase = "backup verified" -> {"backup"}
      [] phrase = "emergency shutdown" -> {"emergency"}
      [] OTHER -> {}

(* any(word in text.lower() for word in words) *)
FFAnyIn(words, text) == \E p \in text : words \cap FFKeywordsIn(p) # {}

(* error_patterns, in the dict's insertion order *)
error_patterns ==
    << [error_type |-> "memory_exhaustion",
        patterns |-> {"out of memory", "memory exhaustion", "oom", "heap overflow"}],
       [error_type |-> "database_corruption",
        patterns |-> {"database corruption", "db corruption", "data corruption", "sql error"}],
       [error_type |-> "system_crash",
        patterns |-> {"system crash", "kernel panic", "blue screen", "fatal error"}],
       [error_type |-> "security_breach",
        patterns |-> {"security breach", "unauthorized access", "security incident", "malware"}],
       [error_type |-> "network_failure",
        patterns |-> {"network failure", "connectivity lost", "network down", "connection refused"}],
       [error_type |-> "disk_failure",
        patterns |-> {"disk failure", "hard drive error", "storage failure", "i/o error"}],
       [error_type |-> "service_crash",
        patterns |-> {"service crash", "application crash", "process terminated", "service down"}],
       [error_type |-> "infrastructure_failure",
        patterns |-> {"infrastructure failure", "hardware failure", "power failure"}] >>

_extract_error_type(raw_signal, context, error_logs) ==
    LET combined_text == raw_signal \cup context \cup error_logs
        hits == {i \in 1..Len(error_patterns) :
                    FFAnyIn(error_patterns[i].patterns, combined_text)}
    IN  IF hits = {} THEN "unknown_fatal_error"
        ELSE error_patterns[MinOf(hits)].error_type

_extract_system_impact(raw_signal, context) ==
    LET combined_text == raw_signal \cup context
    IN  IF FFAnyIn({"complete", "total", "all systems", "entire"}, combined_text)
            THEN "system-wide"
        ELSE IF FFAnyIn({"major", "significant", "critical", "extensive"}, combined_text)
            THEN "major-impact"
        ELSE IF FFAnyIn({"partial", "some", "limited"}, combined_text)
            THEN "partial-impact"
        ELSE "unknown-impact"

(* severity_adjustments.get(error_type, 10) *)
severity_adjustments(error_type) ==
    CASE error_type = "memory_exhaustion" -> 15
      [] error_type = "database_corruption" -> 25
      [] error_type = "system_crash" -> 20
      [] error_type = "security_breach" -> 30
      [] error_type = "network_failure" -> 10
      [] error_type = "disk_failure" -> 20
      [] error_type = "service_crash" -> 15
      [] error_type = "infrastructure_failure" -> 25
      [] OTHER -> 10

critical_indicators == {"critical", "fatal", "emergency", "catastrophic"}

(* The score after the three adjustments, before the tier is chosen. *)
severity_score_raw(error_type, system_impact, error_logs) ==
    50 + severity_adjustments(error_type)
       + (IF system_impact = "system-wide" THEN 25
          ELSE IF system_impact = "major-impact" THEN 15
          ELSE IF system_impact = "partial-impact" THEN 5
          ELSE 0)
       + (IF FFAnyIn(critical_indicators, error_logs) THEN 15 ELSE 0)

_classify_severity_unclamped(error_type, system_impact, error_logs) ==
    LET severity_score == severity_score_raw(error_type, system_impact, error_logs)
    IN  IF severity_score >= 90
            THEN [level |-> "catastrophic", score |-> severity_score]
        ELSE IF severity_score >= 75 THEN [level |-> "critical", score |-> severity_score]
        ELSE IF severity_score >= 60 THEN [level |-> "severe", score |-> severity_score]
        ELSE IF severity_score >= 45 THEN [level |-> "high", score |-> severity_score]
        ELSE [level |-> "elevated", score |-> severity_score]
_classify_severity(error_type, system_impact, error_logs) ==
    LET severity_score == severity_score_raw(error_type, system_impact, error_logs)
    IN  IF severity_score >= 90
            THEN [level |-> "catastrophic", score |-> Min2(100, severity_score)]
        ELSE IF severity_score >= 75 THEN [level |-> "critical", score |-> severity_score]
        ELSE IF severity_score >= 60 THEN [level |-> "severe", score |-> severity_score]
        ELSE IF severity_score >= 45 THEN [level |-> "high", score |-> severity_score]
        ELSE [level |-> "elevated", score |-> severity_score]

_classify_incident_type(error_type, error_logs) ==
    IF error_type \in {"system_crash", "memory_exhaustion", "service_crash"}
        THEN "system_crash"
    ELSE IF error_type \in {"database_corruption", "data corruption"}
        THEN "data_corruption"
    ELSE IF error_type = "security_breach" THEN "security_breach"
    ELSE IF error_type \in {"infrastructure_failure", "disk_failure", "network_failure"}
        THEN "infrastructure_failure"
    ELSE "service_outage"


corruption_indicators == {"corruption", "corrupt", "damaged", "inconsistent", "integrity error"}
backup_indicators == {"backup", "recovery", "restore point"}

(* The first two steps: the corruption indicators, then the incident type. *)
data_loss_from_indicators(error_logs) ==
    IF FFAnyIn(corruption_indicators, error_logs)
        THEN (IF FFAnyIn({"database"}, error_logs) THEN 70 ELSE 30)
        ELSE 0

data_integrity_of(error_logs, corruption_detected, corruption_scope, data_loss_probability) ==
    LET backup_availability ==
            IF FFAnyIn(backup_indicators, error_logs) THEN "available"
            ELSE IF corruption_detected THEN "partial"
            ELSE "unavailable"
    IN  [corruption_detected |-> corruption_detected,
         corruption_scope |-> corruption_scope,
         data_loss_probability |-> data_loss_probability,
         backup_availability |-> backup_availability,
         recovery_timeline |->
            IF backup_availability = "available" THEN "2-6 hours"
            ELSE IF backup_availability = "partial" THEN "6-24 hours"
            ELSE "1-3 days",
         critical_data_affected |->
            IF FFAnyIn({"database"}, error_logs) \/ FFAnyIn({"data"}, error_logs)
                THEN <<"user data", "transaction data", "configuration data">>
                ELSE << >>]

_assess_data_integrity_adding(error_logs, system_state, incident_type) ==
    LET indicated == FFAnyIn(corruption_indicators, error_logs)
        p0 == data_loss_from_indicators(error_logs)
        scope0 == IF ~indicated THEN "none"
                  ELSE IF FFAnyIn({"database"}, error_logs) THEN "significant"
                  ELSE "limited"
    IN  IF incident_type = "data_corruption"
            THEN data_integrity_of(error_logs, TRUE, "extensive", p0 + 80)
        ELSE IF incident_type = "system_crash"
            THEN data_integrity_of(error_logs, indicated, scope0, Max2(p0, 40))
        ELSE data_integrity_of(error_logs, indicated, scope0, p0)
_assess_data_integrity(error_logs, system_state, incident_type) ==
    LET indicated == FFAnyIn(corruption_indicators, error_logs)
        p0 == data_loss_from_indicators(error_logs)
        scope0 == IF ~indicated THEN "none"
                  ELSE IF FFAnyIn({"database"}, error_logs) THEN "significant"
                  ELSE "limited"
    IN  IF incident_type = "data_corruption"
            THEN data_integrity_of(error_logs, TRUE, "extensive", 80)
        ELSE IF incident_type = "system_crash"
            THEN data_integrity_of(error_logs, indicated, scope0, Max2(p0, 40))
        ELSE data_integrity_of(error_logs, indicated, scope0, p0)

(* FFInspector.process_signal: the parts of the response that depend on    *)
(* the texts of the signal.                                                *)
ff_process_signal(signal) ==
    LET raw_signal == signal.data.raw_signal
        context == signal.data.context
        error_logs == signal.data.error_logs
        error_type == _extract_error_type(raw_signal, context, error_logs)
        system_impact == _extract_system_impact(raw_signal, context)
        severity == _classify_severity(error_type, system_impact, error_logs)
        incident_type == _classify_incident_type(error_type, error_logs)
    IN  [status |-> "returned",
         signal_id |-> signal.id,
         signal_type |-> "ff",
         emergency_assessment |->
            [severity_level |-> severity.level,
             severity_score |-> severity.score,
             incident_type |-> incident_type,
             acceptance |-> 100],
         data_integrity |-> _assess_data_integrity(error_logs, << >>, incident_type),
         requires_action |-> TRUE,
         escalation_threshold |-> 1,
         metadata |-> [error_type |-> error_type, system_impact_level |-> system_impact]]

FFSignals ==
    [id : {1},
     data : [raw_signal : {{"[FF]"}},
             context : Texts(FFContextPhrases),
             error_logs : Texts(FFLogPhrases)]]

InitFF ==
    /\ InitPrograms
    /\ fn_call \in [fn : {"FFInspector.process_signal"}, signal : FFSignals]
    /\ fn_ret = Pending

FFProcessSignal ==
    /\ fn_call.fn = "FFInspector.process_signal"
    /\ fn_ret = Pending
    /\ fn_ret' = ff_process_signal(fn_call.signal)
    /\ UNCHANGED <<usersVars, itemsVars, hfVars, genVars, now, fn_call>>

NextFF == FFProcessSignal
SpecFF == InitFF /\ [][NextFF]_vars

FFReturned == fn_call.fn = "FFInspector.process_signal" /\ fn_ret.status = "returned"

(* C11, as stated: the data-loss probability of every payload the FF       *)
(* inspector produces is one of 0, 30, 70 or 80.  Violated: a system-crash *)
(* incident without corruption indicators has probability 40.              *)
C11_DataLossProbabilityInFourValues ==
    FFReturned => fn_ret.data_integrity.data_loss_probability \in {0, 30, 70, 80}

(* C11, amended: the data-loss probability of every payload the FF         *)
(* inspector produces is one of 0, 30, 40, 70 or 80, and it is 40 only for *)
(* a system-crash incident whose error logs show no database corruption.   *)
C11_DataLossProbabilityInFiveValues ==
    FFReturned =>
        /\ fn_ret.data_integrity.data_loss_probability \in {0, 30, 40, 70, 80}
        /\ fn_ret.data_integrity.data_loss_probability = 40 =>
              /\ fn_ret.emergency_assessment.incident_type = "system_crash"
              /\ fn_ret.data_integrity.corruption_scope \in {"none", "limited"}

C11_Witness ==
    /\ FFReturned
    /\ fn_ret.data_integrity.data_loss_probability = 40
    /\ fn_ret.data_integrity.corruption_scope = "limited"

(* C15: the severity score is min(100, 50 + error-type delta + impact-scope *)
(* delta + 15 if a critical keyword occurs in the error logs); the tier is  *)
(* catastrophic / critical / severe / high / elevated at the thresholds     *)
(* 90 / 75 / 60 / 45; a security breach with system-wide impact and a       *)
(* critical keyword scores 100 and is catastrophic.                         *)
C15_SeverityScoreAndTier ==
    FFReturned =>
        LET a == fn_ret.emergency_assessment
            m == fn_ret.metadata
            logs == fn_call.signal.data.error_logs
            sum == severity_score_raw(m.error_type, m.system_impact_level, logs)
        IN  /\ a.severity_score = Min2(100, sum)
            /\ a.severity_level =
                  (IF a.severity_score >= 90 THEN "catastrophic"
                   ELSE IF a.severity_score >= 75 THEN "critical"
                   ELSE IF a.severity_score >= 60 THEN "severe"
                   ELSE IF a.severity_score >= 45 THEN "high"
                   ELSE "elevated")
            /\ (m.error_type = "security_breach"
                  /\ m.system_impact_level = "system-wide"
                  /\ FFAnyIn(critical_indicators, logs))
               => (a.severity_score = 100 /\ a.severity_level = "catastrophic")

C15_Witness ==
    /\ FFReturned
    /\ fn_ret.metadata.error_type = "security_breach"
    /\ fn_ret.metadata.system_impact_level = "system-wide"
    /\ FFAnyIn(critical_indicators, fn_call.signal.data.error_logs)
    /\ fn_ret.emergency_assessment.severity_score = 100


----------------------------------------------------------------------------
(* Admin Attention orchestrator: guidelines/EN/signals/aa/orchestrator.py  *)

(* dict.get(key, default) on a dict modelled as a function *)
get(dict, key, default) == IF key \in DOMAIN dict THEN dict[key] ELSE default

MaxPriority == 100      \* aa/inspector.py:219  return min(100, priority)

_determine_communication_strategy_by_urgency(classification) ==
    LET urgency == get(classification, "urgency", "medium")
    IN  IF urgency = "immediate"
            THEN [strategy_name |-> "immediate_multi_channel",
                  channels |-> <<"nudge", "slack">>,
                  follow_up_interval |-> 1, escalation_interval |-> 2]
        ELSE IF urgency = "high"
            THEN [strategy_name |-> "high_priority_email_chat",
                  channels |-> <<"email", "slack">>,
                  follow_up_interval |-> 4, escalation_interval |-> 8]
        ELSE IF urgency = "medium"
            THEN [strategy_name |-> "standard_email",
                  channels |-> <<"email">>,
                  follow_up_interval |-> 24, escalation_interval |-> 48]
        ELSE [strategy_name |-> "low_priority_email",
              channels |-> <<"email">>,
              follow_up_interval |-> 72, escalation_interval |-> 120]
_determine_communication_strategy(classification) ==
    LET urgency == get(classification, "urgency", "medium")
        priority == get(classification, "priority", 75)
    IN  IF urgency = "immediate" \/ priority >= 90
            THEN [strategy_name |-> "immediate_multi_channel",
                  channels |-> <<"nudge", "slack">>,
                  follow_up_interval |-> 1, escalation_interval |-> 2]
        ELSE IF urgency = "high" \/ priority >= 70
            THEN [strategy_name |-> "high_priority_email_chat",
                  channels |-> <<"email", "slack">>,
                  follow_up_interval |-> 4, escalation_interval |-> 8]
        ELSE IF urgency = "medium"
            THEN [strategy_name |-> "standard_email",
                  channels |-> <<"email">>,
                  follow_up_interval |-> 24, escalation_interval |-> 48]
        ELSE [strategy_name |-> "low_priority_email",
              channels |-> <<"email">>,
              follow_up_interval |-> 72, escalation_interval |-> 120]

(* _calculate_deadline: the hours added to datetime.now() *)
_calculate_deadline(classification) ==
    LET urgency == get(classification, "urgency", "medium")
    IN  IF urgency = "immediate" THEN 1
        ELSE IF urgency = "high" THEN 4
        ELSE IF urgency = "medium" THEN 24
        ELSE 72

(* AAOrchestrator.process_signal: the parts of the response that depend on *)
(* the classification of the inspector payload.                            *)
aa_orchestrator_process_signal(inspector_payload) ==
    LET classification == get(inspector_payload, "classification", EmptyDict)
        communication_strategy == _determine_communication_strategy(classification)
    IN  [status |-> "returned",
         signal_type |-> "aa",
         action |-> "notify_admin",
         notification |->
            [priority |-> get(classification, "priority", 75),
             urgency |-> get(classification, "urgency", "medium"),
             channels |-> communication_strategy.channels,
             follow_up_interval |-> communication_strategy.follow_up_interval,
             escalation_interval |-> communication_strategy.escalation_interval,
             follow_up_required |-> TRUE],
         decision_tracking |-> [decision_deadline |-> _calculate_deadline(classification)],
         metadata |-> [communication_strategy |-> communication_strategy.strategy_name]]

UrgencyLevels == {"immediate", "high", "medium", "low"}
AAClassifications ==
    [urgency : UrgencyLevels, priority : 0..MaxPriority]
        \cup [urgency : UrgencyLevels] \cup [priority : 0..MaxPriority]
AAInspectorPayloads == [classification : AAClassifications]

InitAAOrchestrator ==
    /\ InitPrograms
    /\ fn_call \in [fn : {"AAOrchestrator.process_signal"},
                    inspector_payload : AAInspectorPayloads]
    /\ fn_ret = Pending

AAOrchestratorProcessSignal ==
    /\ fn_call.fn = "AAOrchestrator.process_signal"
    /\ fn_ret = Pending
    /\ fn_ret' = aa_orchestrator_process_signal(fn_call.inspector_payload)
    /\ UNCHANGED <<usersVars, itemsVars, hfVars, genVars, now, fn_call>>

NextAAOrchestrator == AAOrchestratorProcessSignal
SpecAAOrchestrator == InitAAOrchestrator /\ [][NextAAOrchestrator]_vars

AAOrchestratorReturned ==
    fn_call.fn = "AAOrchestrator.process_signal" /\ fn_ret.status = "returned"

(* The channels, follow-up and escalation hours the specification gives a tier. *)
TierStrategy(tier) ==
    CASE tier = "immediate" -> [channels |-> <<"nudge", "slack">>, follow_up |-> 1, escalation |-> 2]
      [] tier = "high" -> [channels |-> <<"email", "slack">>, follow_up |-> 4, escalation |-> 8]
      [] tier = "medium" -> [channels |-> <<"email">>, follow_up |-> 24, escalation |-> 48]
      [] OTHER -> [channels |-> <<"email">>, follow_up |-> 72, escalation |-> 120]
DeliveredStrategy ==
    [channels |-> fn_ret.notification.channels,
     follow_up |-> fn_ret.notification.follow_up_interval,
     escalation |-> fn_ret.notification.escalation_interval]

(* C12, as stated: the communication strategy is fixed by the urgency tier *)
(* alone (immediate: push+chat 1h/2h; high: email+chat 4h/8h; medium:      *)
(* email 24h/48h; low: email only 72h/120h), so a payload of urgency low   *)
(* always gets email only with escalation at 120 h, whatever its priority. *)
(* Violated: a priority of 90 or more, or of 70 or more, overrides a lower *)
(* urgency.                                                                *)
C12_StrategyByUrgencyAlone ==
    AAOrchestratorReturned =>
        DeliveredStrategy = TierStrategy(fn_ret.notification.urgency)

(* C12, amended: the strategy is fixed by urgency and priority together:   *)
(* immediate urgency or priority >= 90 gets push+chat 1h/2h; otherwise     *)
(* high urgency or priority >= 70 gets email+chat 4h/8h; otherwise medium  *)
(* gets email 24h/48h and anything else email only 72h/120h.  A payload of *)
(* urgency low gets email only with escalation at 120 h exactly when its   *)
(* priority is below 70.                                                   *)
C12_StrategyByUrgencyAndPriority ==
    AAOrchestratorReturned =>
        LET urgency == fn_ret.notification.urgency
            priority == fn_ret.notification.priority
            tier == IF urgency = "immediate" \/ priority >= 90 THEN "immediate"
                    ELSE IF urgency = "high" \/ priority >= 70 THEN "high"
                    ELSE urgency
        IN  /\ DeliveredStrategy = TierStrategy(tier)
            /\ urgency = "low" =>
                  (DeliveredStrategy = TierStrategy("low") <=> priority < 70)

C12_Witness ==
    /\ AAOrchestratorReturned
    /\ "urgency" \in DOMAIN fn_call.inspector_payload.classification
    /\ fn_call.inspector_payload.classification.urgency = "low"
    /\ fn_ret.notification.priority >= 90
    /\ fn_ret.notification.channels = <<"nudge", "slack">>


----------------------------------------------------------------------------
(* Admin Attention inspector: guidelines/EN/signals/aa/inspector.py        *)

risk_scores(risk_level) ==
    CASE risk_level = "low" -> 1
      [] risk_level = "medium" -> 2
      [] risk_level = "high" -> 3
      [] risk_level = "critical" -> 4
      [] OTHER -> 2

(* weight * (probability / 100) is evaluated in double precision.  With    *)
(* weight 1, 2 or 4 the product is the double nearest to the exact value   *)
(* weight * probability / 100; with weight 3 it is, for the probabilities  *)
(* below, the double just above or just below that one.                    *)
RoundedUp == {5, 7, 10, 14, 19, 20, 23, 28, 38, 40, 46, 55, 56, 63, 65, 67, 76, 80, 92}
RoundedDown == {15, 29, 30, 31, 35, 37, 58, 60, 62, 70, 74, 83, 95, 99}
double_product(weight, probability) ==
    [hundredths |-> weight * probability,
     ulps |-> IF weight # 3 THEN 0
              ELSE IF probability \in RoundedUp THEN 1
              ELSE IF probability \in RoundedDown THEN -1
              ELSE 0]
(* a < b on two such doubles *)
double_less(a, b) ==
    \/ a.hundredths < b.hundredths
    \/ a.hundredths = b.hundredths /\ a.ulps < b.ulps

_get_risk_score(risk_assessment) ==
    LET risk_level == get(risk_assessment, "risk_level", "medium")
        probability == get(risk_assessment, "probability", 50)
    IN  double_product(risk_scores(risk_level), probability)

(* min(analyzed_options, key=...): the first option no other one is below *)
_generate_recommendation(analyzed_options, urgency, complexity) ==
    IF analyzed_options = << >>
        THEN [recommended_option |-> None,
              justification |-> "Insufficient options for recommendation"]
    ELSE
        LET key(i) == _get_risk_score(get(analyzed_options[i], "risk_assessment", EmptyDict))
            minimal == {i \in 1..Len(analyzed_options) :
                           \A j \in 1..Len(analyzed_options) : ~double_less(key(j), key(i))}
            best_option == analyzed_options[MinOf(minimal)]
        IN  [recommended_option |-> best_option.option_id,
             justification |->
                "Recommended based on risk assessment and complexity analysis"]

MaxOptions == 3     \* analysed options handed to _generate_recommendation
RiskLevels == {"low", "medium", "high", "critical"}
Probabilities == {30, 90}
RiskAssessments == [risk_level : RiskLevels, probability : Probabilities] \cup {EmptyDict}
option_id(i) == CASE i = 1 -> "A" [] i = 2 -> "B" [] i = 3 -> "C" [] i = 4 -> "D" [] OTHER -> "E"
AnalyzedOptions ==
    UNION {{[i \in 1..n |-> [option_id |-> option_id(i), risk_assessment |-> ras[i]]] :
                ras \in [1..n -> RiskAssessments]} : n \in 0..MaxOptions}

InitAAInspector ==
    /\ InitPrograms
    /\ fn_call \in [fn : {"AAInspector._generate_recommendation"},
                    analyzed_options : AnalyzedOptions]
    /\ fn_ret = Pending

AAGenerateRecommendation ==
    /\ fn_call.fn = "AAInspector._generate_recommendation"
    /\ fn_ret = Pending
    /\ fn_ret' = [status |-> "returned",
                  recommendation |->
                      _generate_recommendation(fn_call.analyzed_options, "low", "low")]
    /\ UNCHANGED <<usersVars, itemsVars, hfVars, genVars, now, fn_call>>

NextAAInspector == AAGenerateRecommendation
SpecAAInspector == InitAAInspector /\ [][NextAAInspector]_vars

AARecommendationReturned ==
    fn_call.fn = "AAInspector._generate_recommendation" /\ fn_ret.status = "returned"

(* The risk score as the specification defines it, in hundredths. *)
StatedRiskScore(option) ==
    risk_scores(get(option.risk_assessment, "risk_level", "medium"))
        * get(option.risk_assessment, "probability", 50)

----------------------------------------------------------------------------
(* Admin Preview Ready inspector: guidelines/EN/signals/ap/inspector.py    *)
(*                                                                         *)
(* The functions are modelled as their bodies are written.  As shipped the *)
(* file does not compile: line 22 reads  POOR = "poor")  with a stray      *)
(* parenthesis, so importing the module raises SyntaxError before any of   *)
(* them can be called.                                                     *)
(*                                                                         *)
(* preview_data is modelled as the set of its keys that hold a truthy      *)
(* value: preview_data.get(k) is truthy exactly when k is in the set.      *)

APPhrases == {"feature", "report", "mockup", "testing", "release", "audit", "requirements"}

APKeywordsIn(phrase) ==
    CASE phrase = "[ap]" -> {}
      [] phrase = "feature" -> {"feature"}
      [] phrase = "report" -> {"report"}
      [] phrase = "mockup" -> {"mockup"}
      [] phrase = "testing" -> {"testing"}
      [] phrase = "release" -> {"release"}
      [] phrase = "audit" -> {"audit"}
      [] phrase = "requirements" -> {"ui"}
      [] OTHER -> {}

APAnyIn(words, text) == \E p \in text : words \cap APKeywordsIn(p) # {}

(* preview_types, in the dict's insertion order *)
preview_types ==
    << [preview_type |-> "implementation",
        keywords |-> {"implementation", "feature", "development", "code"}],
       [preview_type |-> "analysis",
        keywords |-> {"analysis", "report", "research", "study"}],
       [preview_type |-> "design",
        keywords |-> {"design", "mockup", "prototype", "ui", "ux"}],
       [preview_type |-> "quality",
        keywords |-> {"quality", "testing", "qa", "validation"}],
       [preview_type |-> "deployment",
        keywords |-> {"deployment", "release", "production", "launch"}],
       [preview_type |-> "security",
        keywords |-> {"security", "audit", "vulnerability", "compliance"}] >>

_extract_preview_type(raw_signal, context) ==
    LET combined_text == raw_signal \cup context
        hits == {i \in 1..Len(preview_types) :
                    APAnyIn(preview_types[i].keywords, combined_text)}
    IN  IF hits = {} THEN "general" ELSE preview_types[MinOf(hits)].preview_type

common_components == <<"executive_summary", "detailed_content", "success_metrics">>

_get_required_components(preview_type) ==
    common_components \o
        (CASE preview_type = "implementation" ->
                <<"feature_demonstration", "performance_metrics", "quality_assurance",
                  "deployment_procedures", "rollback_procedures">>
           [] preview_type = "analysis" ->
                <<"methodology", "data_sources", "findings", "visualizations",
                  "recommendations">>
           [] preview_type = "design" ->
                <<"design_mockups", "user_experience_flows", "design_system",
                  "accessibility_compliance", "technical_specifications">>
           [] preview_type = "quality" ->
                <<"test_coverage", "quality_metrics", "defect_analysis",
                  "performance_results", "security_assessment">>
           [] preview_type = "deployment" ->
                <<"deployment_plan", "infrastructure_requirements", "rollback_strategy",
                  "monitoring_setup", "success_criteria">>
           [] OTHER -> << >>)

(* The five components checked whatever the preview type, in that order. *)
checked_components ==
    <<"executive_summary", "detailed_content", "visual_elements", "success_metrics",
      "recommendations">>

Range(seq) == {seq[i] : i \in 1..Len(seq)}

(* a / b as the exact fraction *)
Ratio(a, b) == [num |-> a, den |-> b]

_analyze_package_completeness(preview_data, preview_type) ==
    LET required_components == _get_required_components(preview_type)
        Present(c) == c \in preview_data
        first == SelectSeq(checked_components, Present)
        NewPresent(c) == c \in preview_data /\ c \notin Range(first)
        components_present == first \o SelectSeq(required_components, NewPresent)
    IN  [components_present |-> components_present,
         total_required |-> Len(required_components),
         completion_percentage |->
            IF required_components # << >>
                THEN Ratio(Len(components_present) * 100, Len(required_components))
                ELSE Ratio(0, 1)]

_calculate_completeness_score(package_analysis) == package_analysis.completion_percentage

content_sections ==
    {"background", "methodology", "findings", "analysis", "recommendations",
     "impact_assessment", "next_steps"}

_get_type_specific_content(preview_type) ==
    CASE preview_type = "implementation" -> {"features", "technical_details", "integration_points"}
      [] preview_type = "analysis" -> {"hypothesis", "data_analysis", "insights"}
      [] preview_type = "design" -> {"user_research", "design_rationale", "accessibility"}
      [] preview_type = "quality" -> {"test_results", "defect_analysis", "coverage"}
      [] preview_type = "deployment" -> {"infrastructure", "monitoring", "rollback"}
      [] OTHER -> {}

ZeroDivisionError == [status |-> "raised", error |-> "ZeroDivisionError"]

(* min(100, int(60 + present/7 * 30 + present_type_specific/n * 10)); the  *)
(* second division raises when the type has no type-specific content.      *)
_assess_content_completeness(preview_data, preview_type) ==
    LET present_sections == Cardinality(content_sections \cap preview_data)
        type_specific_content == _get_type_specific_content(preview_type)
        n == Cardinality(type_specific_content)
        present_type_specific == Cardinality(type_specific_content \cap preview_data)
    IN  IF n = 0 THEN ZeroDivisionError
        ELSE [status |-> "returned",
              value |-> Min2(100,
                   (60 * 7 * n + present_sections * 30 * n + present_type_specific * 10 * 7)
                       \div (7 * n))]


(* APInspector.process_signal: the package analysis, the content           *)
(* completeness score and the scores derived from the two.                 *)
ap_process_signal(signal) ==
    LET raw_signal == signal.data.raw_signal
        context == signal.data.context
        preview_data == signal.data.preview_data
        preview_type == _extract_preview_type(raw_signal, context)
        package_analysis == _analyze_package_completeness(preview_data, preview_type)
        content_completeness == _assess_content_completeness(preview_data, preview_type)
    IN  IF content_completeness.status = "raised" THEN content_completeness
        ELSE [status |-> "returned",
              signal_id |-> signal.id,
              signal_type |-> signal.type,
              validation |->
                 [completeness_score |-> _calculate_completeness_score(package_analysis)],
              package_analysis |-> package_analysis,
              content_quality |-> [completeness_score |-> content_completeness.value],
              preview_metadata |-> [preview_type |-> preview_type],
              escalation_threshold |-> 3]

ImplementationComponents ==
    {"feature_demonstration", "performance_metrics", "quality_assurance",
     "deployment_procedures", "rollback_procedures"}
APPreviewData ==
    {checked \cup extra :
        checked \in SUBSET Range(checked_components),
        extra \in {{}, ImplementationComponents, {"methodology", "findings"}, {"features"}}}
APSignals ==
    [id : {1}, type : {"ap"},
     data : [raw_signal : {{"[ap]"}},
             context : Texts(APPhrases),
             preview_data : APPreviewData]]

InitAP ==
    /\ InitPrograms
    /\ fn_call \in [fn : {"APInspector.process_signal"}, signal : APSignals]
    /\ fn_ret = Pending

APProcessSignal ==
    /\ fn_call.fn = "APInspector.process_signal"
    /\ fn_ret = Pending
    /\ fn_ret' = ap_process_signal(fn_call.signal)
    /\ UNCHANGED <<usersVars, itemsVars, hfVars, genVars, now, fn_call>>

NextAP == APProcessSignal
SpecAP == InitAP /\ [][NextAP]_vars

APFinished == fn_call.fn = "APInspector.process_signal" /\ fn_ret # Pending

(* C13: the completeness score of every payload the ap inspector returns   *)
(* lies in 0..100, for every preview type and component combination.       *)
C13_CompletenessScoreInRange ==
    (APFinished /\ fn_ret.status = "returned") =>
        LET score == fn_ret.validation.completeness_score
        IN  0 <= score.num /\ score.num <= 100 * score.den

(* C14: process_signal returns a payload without raising for every signal  *)
(* with an id and a type, whatever the preview type (implementation,       *)
(* analysis, design, quality, deployment, security, general) and however   *)
(* much preview data is missing.                                           *)
C14_ProcessSignalNeverRaises ==
    APFinished => fn_ret.status = "returned"


----------------------------------------------------------------------------
(* Victory analyzer: guidelines/EN/signals/JC/inspector.py                 *)
(*                                                                         *)
(* victory_score is round(total_score, 1) and health_percentage a float;   *)
(* both are modelled in tenths of a point, so 90 is written 900.           *)

Tenths(points) == points * 10

_determine_resolution_status_score_first(resolution_validation, victory_score) ==
    LET systems_healthy == resolution_validation.systems_healthy
    IN  IF victory_score >= Tenths(90) THEN "complete_victory"
        ELSE IF systems_healthy.remaining_issues # << >>
                \/ systems_healthy.health_percentage < Tenths(90)
            THEN "ongoing_recovery"
        ELSE IF victory_score >= Tenths(75) THEN "major_victory"
        ELSE IF victory_score >= Tenths(60) THEN "partial_victory"
        ELSE IF victory_score >= Tenths(45) THEN "limited_victory"
        ELSE "ongoing_recovery"
_determine_resolution_status(resolution_validation, victory_score) ==
    LET systems_healthy == resolution_validation.systems_healthy
    IN  IF systems_healthy.remaining_issues # << >>
            \/ systems_healthy.health_percentage < Tenths(90)
            THEN "ongoing_recovery"
        ELSE IF victory_score >= Tenths(90) THEN "complete_victory"
        ELSE IF victory_score >= Tenths(75) THEN "major_victory"
        ELSE IF victory_score >= Tenths(60) THEN "partial_victory"
        ELSE IF victory_score >= Tenths(45) THEN "limited_victory"
        ELSE "ongoing_recovery"

MaxScore == 100     \* scores and percentages run from 0 to 100 points
MaxIssues == 1      \* remaining issues listed in the system health data

VictoryScores == 0..Tenths(MaxScore)
HealthPercentages == {0, Tenths(90) - 1, Tenths(90), Tenths(MaxScore)}
RemainingIssues ==
    UNION {[1..n -> {"queue backlog"}] : n \in 0..MaxIssues}
ResolutionValidations ==
    [systems_healthy :
        [remaining_issues : RemainingIssues, health_percentage : HealthPercentages]]

InitJC ==
    /\ InitPrograms
    /\ fn_call \in [fn : {"VictoryAnalyzer._determine_resolution_status"},
                    resolution_validation : ResolutionValidations,
                    victory_score : VictoryScores]
    /\ fn_ret = Pending

JCDetermineResolutionStatus ==
    /\ fn_call.fn = "VictoryAnalyzer._determine_resolution_status"
    /\ fn_ret = Pending
    /\ fn_ret' = [status |-> "returned",
                  resolution_status |->
                      _determine_resolution_status(fn_call.resolution_validation,
                                                   fn_call.victory_score)]
    /\ UNCHANGED <<usersVars, itemsVars, hfVars, genVars, now, fn_call>>

NextJC == JCDetermineResolutionStatus
SpecJC == InitJC /\ [][NextJC]_vars

JCReturned ==
    fn_call.fn = "VictoryAnalyzer._determine_resolution_status"
        /\ fn_ret.status = "returned"

(* C16: the resolution status is ongoing_recovery whenever remaining       *)
(* issues are listed or the health percentage is below 90, whatever the    *)
(* score; otherwise it is complete_victory from 90, major_victory from 75, *)
(* partial_victory from 60, limited_victory from 45 and ongoing_recovery   *)
(* below 45.                                                               *)
C16_ResolutionStatusTiers ==
    JCReturned =>
        LET health == fn_call.resolution_validation.systems_healthy
            score == fn_call.victory_score
            status == fn_ret.resolution_status
        IN  /\ (health.remaining_issues # << >> \/ health.health_percentage < 900)
                  => status = "ongoing_recovery"
            /\ (health.remaining_issues = << >> /\ health.health_percentage >= 900) =>
                  /\ status = "complete_victory" <=> score >= 900
                  /\ status = "major_victory" <=> (score >= 750 /\ score < 900)
                  /\ status = "partial_victory" <=> (score >= 600 /\ score < 750)
                  /\ status = "limited_victory" <=> (score >= 450 /\ score < 600)
                  /\ status = "ongoing_recovery" <=> score < 450

C16_Witness ==
    /\ JCReturned
    /\ fn_call.resolution_validation.systems_healthy.remaining_issues # << >>
    /\ fn_call.resolution_validation.systems_healthy.health_percentage >= 900
    /\ fn_call.victory_score >= 900
    /\ fn_ret.resolution_status = "ongoing_recovery"


----------------------------------------------------------------------------
(* Pull-request analysis schema:                                           *)
(*   guidelines/DE/pull-request-analysis/inspector.py                      *)
(*                                                                         *)
(* A JSON value is modelled as [t |-> its Python type, v |-> its value as  *)
(* an int]: bool is a subclass of int (True == 1, False == 0), so          *)
(* isinstance(x, int) holds for both and the comparisons use v.  Objects   *)
(* are functions from their keys to values, arrays are sequences; where a *)
(* value of any type may stand they are wrapped as [t |-> "dict", fields]  *)
(* and [t |-> "list", items].                                              *)

IntValue(n) == [t |-> "int", v |-> n]
BoolValue(n) == [t |-> "bool", v |-> n]          \* True is BoolValue(1)
Float55 == [t |-> "float", v |-> 5]         \* 5.5; only its type is looked at
Str == [t |-> "str", v |-> 0]               \* some string; only its type is looked at

isinstance_int(x) == x.t \in {"int", "bool"}

Error(text, i) == [text |-> text, i |-> i]  \* i: the recommendation's index, -1 if none

(* for field in required_fields: if field not in obj: errors.append(...) *)
MissingFields(required_fields, obj, text, i) ==
    LET Missing(field) == field \notin DOMAIN obj
        missing == SelectSeq(required_fields, Missing)
    IN  [k \in 1..Len(missing) |-> [text |-> text, i |-> i, field |-> missing[k]]]

(* the errors one element of recommendations adds *)
recommendation_errors(rec, i) ==
    IF rec.t # "dict" THEN << Error("Recommendation must be an object", i) >>
    ELSE MissingFields(<<"type", "description", "estimatedTime">>, rec.fields,
                       "Recommendation missing required field", i)
         \o (IF "estimatedTime" \in DOMAIN rec.fields
                /\ (~isinstance_int(rec.fields.estimatedTime)
                    \/ rec.fields.estimatedTime.v < 1 \/ rec.fields.estimatedTime.v > 480)
             THEN << Error("Recommendation estimatedTime must be between 1 and 480 minutes", i) >>
             ELSE << >>)

RECURSIVE recommendations_errors(_, _)
recommendations_errors(recommendations, i) ==
    IF i >= Len(recommendations) THEN << >>
    ELSE recommendation_errors(recommendations[i + 1], i)
            \o recommendations_errors(recommendations, i + 1)

validate_inspector_output(data) ==
    (IF "classification" \notin DOMAIN data
        THEN << Error("Missing required field: classification", -1) >> ELSE << >>)
    \o (IF "recommendations" \notin DOMAIN data
        THEN << Error("Missing required field: recommendations", -1) >> ELSE << >>)
    \o (IF "classification" \in DOMAIN data
        THEN LET classification == data.classification
             IN  MissingFields(<<"category", "priority", "agentRole", "confidence">>,
                               classification, "Missing required field in classification", -1)
                 \o (IF "priority" \in DOMAIN classification
                        /\ (~isinstance_int(classification.priority)
                            \/ classification.priority.v < 1
                            \/ classification.priority.v > 10)
                     THEN << Error("Priority must be an integer between 1 and 10", -1) >>
                     ELSE << >>)
                 \o (IF "confidence" \in DOMAIN classification
                        /\ (~isinstance_int(classification.confidence)
                            \/ classification.confidence.v < 0
                            \/ classification.confidence.v > 100)
                     THEN << Error("Confidence must be an integer between 0 and 100", -1) >>
                     ELSE << >>)
        ELSE << >>)
    \o (IF "recommendations" \in DOMAIN data
        THEN (IF data.recommendations.t # "list"
                THEN << Error("Recommendations must be an array", -1) >>
                ELSE recommendations_errors(data.recommendations.items, 0))
        ELSE << >>)

MaxRecommendations == 1     \* recommendations in the validated output

(* the objects holding any subset of the keys, each key with one of its values *)
RECURSIVE PartialObjects(_, _)
PartialObjects(fields, keys) ==
    IF keys = {} THEN {EmptyDict}
    ELSE LET k == CHOOSE x \in keys : TRUE
             rest == PartialObjects(fields, keys \ {k})
         IN  rest \cup {Put(r, k, v) : r \in rest, v \in fields[k]}
Objects(fields) == PartialObjects(fields, DOMAIN fields)

ClassificationFields ==
    [category |-> {Str}, agentRole |-> {Str},
     priority |-> {IntValue(0), IntValue(1), IntValue(10), IntValue(11), BoolValue(1), Float55},
     confidence |-> {IntValue(-1), IntValue(0), IntValue(100), IntValue(150), BoolValue(0), Str}]
RecommendationFields ==
    [type |-> {Str}, description |-> {Str},
     estimatedTime |-> {IntValue(0), IntValue(1), IntValue(480), IntValue(481), BoolValue(1)}]
RecommendationValues ==
    {[t |-> "dict", fields |-> r] : r \in Objects(RecommendationFields)} \cup {Str}
RecommendationLists ==
    {[t |-> "list", items |-> l] :
        l \in UNION {[1..n -> RecommendationValues] : n \in 0..MaxRecommendations}}
        \cup {Str}
InspectorOutputs ==
    Objects([classification |-> Objects(ClassificationFields),
             recommendations |-> RecommendationLists])


InitPR ==
    /\ InitPrograms
    /\ fn_call \in [fn : {"validate_inspector_output"}, data : InspectorOutputs]
    /\ fn_ret = Pending

PRValidateInspectorOutput ==
    /\ fn_call.fn = "validate_inspector_output"
    /\ fn_ret = Pending
    /\ fn_ret' = [status |-> "returned", errors |-> validate_inspector_output(fn_call.data)]
    /\ UNCHANGED <<usersVars, itemsVars, hfVars, genVars, now, fn_call>>

NextPR == PRValidateInspectorOutput
SpecPR == InitPR /\ [][NextPR]_vars

PRReturned == fn_call.fn = "validate_inspector_output" /\ fn_ret.status = "returned"


(* The rules of the contract, counted: a value is an integer when its JSON *)
(* type is integer (the schema's "type": "integer"), which true and false  *)
(* are not.                                                                *)
IsIntegerIn(x, lo, hi) == x.t = "int" /\ x.v >= lo /\ x.v <= hi
Broken(cond) == IF cond THEN 1 ELSE 0
RECURSIVE BrokenInRecommendations(_, _)
BrokenInRecommendations(items, n) ==
    IF n = 0 THEN 0
    ELSE BrokenInRecommendations(items, n - 1)
         + (IF items[n].t # "dict" THEN 1
            ELSE LET rec == items[n].fields
                 IN  Broken("type" \notin DOMAIN rec)
                     + Broken("description" \notin DOMAIN rec)
                     + Broken("estimatedTime" \notin DOMAIN rec)
                     + Broken("estimatedTime" \in DOMAIN rec
                                /\ ~IsIntegerIn(rec.estimatedTime, 1, 480)))
BrokenRules(data) ==
    Broken("classification" \notin DOMAIN data)
    + Broken("recommendations" \notin DOMAIN data)
    + (IF "classification" \notin DOMAIN data THEN 0
       ELSE LET c == data.classification
            IN  Broken("category" \notin DOMAIN c) + Broken("priority" \notin DOMAIN c)
                + Broken("agentRole" \notin DOMAIN c) + Broken("confidence" \notin DOMAIN c)
                + Broken("priority" \in DOMAIN c /\ ~IsIntegerIn(c.priority, 1, 10))
                + Broken("confidence" \in DOMAIN c /\ ~IsIntegerIn(c.confidence, 0, 100)))
    + (IF "recommendations" \notin DOMAIN data THEN 0
       ELSE IF data.recommendations.t # "list" THEN 1
       ELSE BrokenInRecommendations(data.recommendations.items,
                                    Len(data.recommendations.items)))

(* C18: the validator returns the empty list exactly when classification   *)
(* and recommendations are present, classification has category, priority, *)
(* agentRole and confidence with priority an integer in 1..10 and          *)
(* confidence an integer in 0..100, and recommendations is a list of       *)
(* objects each with type, description and estimatedTime an integer in     *)
(* 1..480; each single broken rule adds exactly one violation (confidence  *)
(* 150 gives exactly one).                                                 *)
C18_ValidatorAcceptsExactlyValidOutputs ==
    PRReturned =>
        /\ fn_ret.errors = << >> <=> BrokenRules(fn_call.data) = 0
        /\ BrokenRules(fn_call.data) = 1 => Len(fn_ret.errors) = 1

(* The same where no field holds true or false. *)
NoBooleans(data) ==
    /\ "classification" \in DOMAIN data =>
          \A k \in DOMAIN data.classification : data.classification[k].t # "bool"
    /\ ("recommendations" \in DOMAIN data /\ data.recommendations.t = "list") =>
          \A n \in 1..Len(data.recommendations.items) :
              LET item == data.recommendations.items[n]
              IN  item.t = "dict" =>
                      \A k \in DOMAIN item.fields : item.fields[k].t # "bool"
ValidatorRightWithoutBooleans ==
    (PRReturned /\ NoBooleans(fn_call.data)) =>
        Len(fn_ret.errors) = BrokenRules(fn_call.data)


----------------------------------------------------------------------------
(* Development-progress schema:                                            *)
(*   guidelines/EN/development-plan/inspector.py                           *)
(*                                                                         *)
(* Values are modelled as in the pull-request schema; a string whose text  *)
(* the validator looks at is [t |-> "str", s |-> text], None is NoneValue. *)

NoneValue == [t |-> "none", v |-> 0]
Text(s) == [t |-> "str", s |-> s]
Dict(fields) == [t |-> "dict", fields |-> fields]
List(items) == [t |-> "list", items |-> items]

(* obj.get(key): AttributeError unless obj is a dict, None if the key is missing *)
HasGet(obj) == obj.t = "dict"
dict_get(obj, key) == IF key \in DOMAIN obj.fields THEN obj.fields[key] ELSE NoneValue

isinstance_int_float(x) == x.t \in {"int", "bool", "float"}
(* x in [the listed strings] *)
InEnumeration(x, enumeration) == x.t = "str" /\ "s" \in DOMAIN x /\ x.s \in enumeration

overall_ratings == {"excellent", "good", "fair", "poor"}
overall_risks == {"low", "medium", "high", "critical"}
recommendation_types ==
    {"implementation", "testing", "documentation", "quality", "integration", "security"}
recommendation_priorities == {"critical", "high", "medium", "low"}
required_sections ==
    {"implementation_analysis", "quality_assessment", "risk_evaluation",
     "recommendations", "confidence_assessment"}

(* isinstance(obj.get(key), (int, float)) and 0 <= obj[key] <= 100, as the *)
(* outcome "True", "False" or the exception raised                         *)
number_check(obj, key) ==
    IF ~HasGet(obj) THEN "AttributeError"
    ELSE IF ~isinstance_int_float(dict_get(obj, key)) THEN "False"
    ELSE IF ~(0 <= obj.fields[key].v /\ obj.fields[key].v <= 100) THEN "False"
    ELSE "True"

enumeration_check(obj, key, enumeration) ==
    IF ~HasGet(obj) THEN "AttributeError"
    ELSE IF ~InEnumeration(dict_get(obj, key), enumeration) THEN "False"
    ELSE "True"

(* for rec in recs: the first recommendation that fails decides *)
RECURSIVE recommendations_check(_, _)
recommendations_check(recs, n) ==
    IF n > Len(recs) THEN "True"
    ELSE LET type_ok == enumeration_check(recs[n], "type", recommendation_types)
             priority_ok == enumeration_check(recs[n], "priority", recommendation_priorities)
         IN  IF type_ok # "True" THEN type_ok
             ELSE IF priority_ok # "True" THEN priority_ok
             ELSE recommendations_check(recs, n + 1)

(* the body of the try block *)
validate_analysis_body(data) ==
    IF data.t # "dict" THEN "TypeError"
    ELSE IF ~(required_sections \subseteq DOMAIN data.fields) THEN "False"
    ELSE
        LET impl == number_check(data.fields.implementation_analysis, "completion_percentage")
            quality == enumeration_check(data.fields.quality_assessment, "overall_rating",
                                         overall_ratings)
            risk == enumeration_check(data.fields.risk_evaluation, "overall_risk",
                                      overall_risks)
            recs == data.fields.recommendations
            conf == number_check(data.fields.confidence_assessment, "overall_confidence")
        IN  IF impl # "True" THEN impl
            ELSE IF quality # "True" THEN quality
            ELSE IF risk # "True" THEN risk
            ELSE IF recs.t # "list" THEN "False"
            ELSE IF recommendations_check(recs.items, 1) # "True"
                THEN recommendations_check(recs.items, 1)
            ELSE conf

(* try: ... except Exception: return False *)
validate_analysis_output(data) == validate_analysis_body(data) = "True"

NumberValues == {IntValue(-1), IntValue(0), IntValue(100), IntValue(101), BoolValue(1), Float55, Str}
NumberSections(key) ==
    {Dict(f) : f \in Objects(key :> NumberValues)} \cup {Str}
EnumerationSections(key, good) ==
    {Dict(f) : f \in Objects(key :> {Text(good), Text("unknown")})} \cup {Str}
AnalysisRecommendations ==
    {Dict(f) : f \in Objects([type |-> {Text("testing"), Text("unknown")},
                              priority |-> {Text("high")}])} \cup {Str}
AnalysisRecommendationLists ==
    {List(l) : l \in UNION {[1..n -> AnalysisRecommendations] : n \in 0..MaxRecommendations}}
        \cup {Str}
AnalysisOutputs ==
    {Dict(f) : f \in Objects(
        [implementation_analysis |-> NumberSections("completion_percentage"),
         quality_assessment |-> EnumerationSections("overall_rating", "good"),
         risk_evaluation |-> EnumerationSections("overall_risk", "low"),
         recommendations |-> AnalysisRecommendationLists,
         confidence_assessment |-> NumberSections("overall_confidence")])}
        \cup {NoneValue}

InitDP ==
    /\ InitPrograms
    /\ fn_call \in [fn : {"validate_analysis_output"}, data : AnalysisOutputs]
    /\ fn_ret = Pending

DPValidateAnalysisOutput ==
    /\ fn_call.fn = "validate_analysis_output"
    /\ fn_ret = Pending
    /\ fn_ret' = [status |-> "returned", value |-> validate_analysis_output(fn_call.data)]
    /\ UNCHANGED <<usersVars, itemsVars, hfVars, genVars, now, fn_call>>

NextDP == DPValidateAnalysisOutput
SpecDP == InitDP /\ [][NextDP]_vars

DPFinished == fn_call.fn = "validate_analysis_output" /\ fn_ret # Pending


(* The conditions of the contract: a number is a JSON number (the          *)
(* schema's "type": "number"), which true and false are not.               *)
IsNumberIn(x, lo, hi) == x.t \in {"int", "float"} /\ x.v >= lo /\ x.v <= hi
HasNumberIn(section, key, lo, hi) ==
    /\ section.t = "dict"
    /\ key \in DOMAIN section.fields
    /\ IsNumberIn(section.fields[key], lo, hi)
HasTextIn(section, key, enumeration) ==
    /\ section.t = "dict"
    /\ key \in DOMAIN section.fields
    /\ InEnumeration(section.fields[key], enumeration)
ValidAnalysis(data) ==
    /\ data.t = "dict"
    /\ required_sections \subseteq DOMAIN data.fields
    /\ HasNumberIn(data.fields.implementation_analysis, "completion_percentage", 0, 100)
    /\ HasNumberIn(data.fields.confidence_assessment, "overall_confidence", 0, 100)
    /\ HasTextIn(data.fields.quality_assessment, "overall_rating", overall_ratings)
    /\ HasTextIn(data.fields.risk_evaluation, "overall_risk", overall_risks)
    /\ data.fields.recommendations.t = "list"
    /\ \A n \in 1..Len(data.fields.recommendations.items) :
          /\ HasTextIn(data.fields.recommendations.items[n], "type", recommendation_types)
          /\ HasTextIn(data.fields.recommendations.items[n], "priority",
                       recommendation_priorities)

(* C19: the validator returns a boolean for every input and never raises;  *)
(* any fault while validating gives False; True is returned only when the  *)
(* five top-level sections are present, completion_percentage and          *)
(* overall_confidence are numbers in 0..100, overall_rating and            *)
(* overall_risk are in their enumerations and every recommendation's type  *)
(* and priority are in theirs.                                             *)
C19_ValidatorTrueOnlyForValidAnalysis ==
    DPFinished =>
        /\ fn_ret.status = "returned"
        /\ fn_ret.value \in BOOLEAN
        /\ validate_analysis_body(fn_call.data) \notin {"True", "False"}
              => fn_ret.value = FALSE
        /\ fn_ret.value = TRUE => ValidAnalysis(fn_call.data)

(* The same where neither number is true or false: True exactly when valid. *)
NumbersAreNotBooleans(data) ==
    data.t = "dict" =>
        \A k \in DOMAIN data.fields :
            data.fields[k].t = "dict" =>
                \A f \in DOMAIN data.fields[k].fields : data.fields[k].fields[f].t # "bool"
AnalysisValidatorRightWithoutBooleans ==
    (DPFinished /\ NumbersAreNotBooleans(fn_call.data)) =>
        (fn_ret.value = TRUE <=> ValidAnalysis(fn_call.data))


----------------------------------------------------------------------------
(* Signal registry: properties *)

\* generate_signals.py:13-79  the values the registry's "category" fields take
categories ==
    {"system", "development", "coordination", "communication", "analysis",
     "testing", "deployment", "incident", "design"}

\* an entry of the registry has a default priority in 1..10 and one of the
\* nine categories
WellFormedEntry(signal_info) ==
    /\ signal_info.priority \in 1..10
    /\ signal_info.category \in categories

\* generate_signals.py:434  the count main prints when its loop is over
len_SIGNALS == Cardinality(SignalCodes)

\* C20: the signal registry holds exactly 44 signal codes, each with a default
\* priority in 1..10 and a category among system, development, coordination,
\* communication, analysis, testing, deployment, incident and design.  Stated
\* on a run of main: every entry is well formed, and when the loop is over it
\* has walked 44 entries, the count main prints.
C20_RegistryHolds44Codes ==
    /\ \A k \in DOMAIN SIGNALS : WellFormedEntry(SIGNALS[k])
    /\ gen_pc = "done" => /\ gen_i - 1 = 44
                          /\ len_SIGNALS = 44

\* The part of C20 that holds: every entry is well formed, no code occurs
\* twice, and the registry holds 50 codes
RegistryEntriesWellFormed ==
    /\ \A k \in DOMAIN SIGNALS : WellFormedEntry(SIGNALS[k])
    /\ len_SIGNALS = Len(SIGNALS)
    /\ gen_pc = "done" => /\ gen_i - 1 = 50
                          /\ len_SIGNALS = 50


----------------------------------------------------------------------------
(* FF orchestrator: src/guidelines/EN/signals/FF/orchestrator.py           *)
(*                                                                         *)
(* The file does not compile as it stands: line 635 holds an unterminated  *)
(* string literal and the list opened at line 1038 is never closed.  The   *)
(* functions below are modelled as written; what they do was observed on a *)
(* copy with those two lines repaired.                                     *)

\* FF/inspector.py:529-561  the immediate actions of the emergency response
_determine_immediate_actions(severity_level, incident_type) ==
    <<"Declare emergency state and mobilize response team",
      "Isolate affected systems to prevent further damage",
      "Initiate system stabilization procedures">>
    \o (IF severity_level \in {"catastrophic", "critical"}
        THEN <<"Activate disaster recovery procedures",
               "Notify executive management immediately",
               "Engage external emergency support services">>
        ELSE << >>)
    \o (IF incident_type = "data_corruption"
        THEN <<"Stop all write operations to affected databases",
               "Preserve system state for forensic analysis",
               "Initiate data integrity verification">>
        ELSE IF incident_type = "security_breach"
        THEN <<"Disconnect affected systems from network",
               "Preserve forensic evidence",
               "Initiate security incident response plan">>
        ELSE << >>)

\* FF/inspector.py:391-503  the immediate recovery options, by incident type
\* (a service outage gets none)
_analyze_recovery_options(incident_type) ==
    [immediate_recovery_options |->
        IF incident_type = "system_crash"
        THEN <<[option |-> "System restart and recovery",
                timeline |-> "30 minutes - 2 hours", success_probability |-> 70],
               [option |-> "Failover to backup system",
                timeline |-> "1-3 hours", success_probability |-> 85]>>
        ELSE IF incident_type = "data_corruption"
        THEN <<[option |-> "Database repair and recovery",
                timeline |-> "4-12 hours", success_probability |-> 60],
               [option |-> "Restore from latest backup",
                timeline |-> "2-6 hours", success_probability |-> 80]>>
        ELSE IF incident_type = "security_breach"
        THEN <<[option |-> "System isolation and containment",
                timeline |-> "1-3 hours", success_probability |-> 90],
               [option |-> "Emergency patch and security update",
                timeline |-> "3-6 hours", success_probability |-> 75]>>
        ELSE IF incident_type = "infrastructure_failure"
        THEN <<[option |-> "Hardware replacement and repair",
                timeline |-> "4-12 hours", success_probability |-> 85],
               [option |-> "Activate disaster recovery site",
                timeline |-> "2-8 hours", success_probability |-> 80]>>
        ELSE << >>]

\* FF/inspector.py:32-100  the parts of the inspector's payload the orchestrator
\* reads: the assessment and data integrity computed above, the recovery
\* analysis and the emergency response
ff_inspector_payload(signal) ==
    LET payload == ff_process_signal(signal)
        assessment == payload.emergency_assessment
    IN  [signal_id |-> payload.signal_id,
         emergency_assessment |-> assessment,
         data_integrity |-> payload.data_integrity,
         recovery_analysis |-> _analyze_recovery_options(assessment.incident_type),
         emergency_response |->
            [immediate_actions |->
                _determine_immediate_actions(assessment.severity_level,
                                             assessment.incident_type)]]

\* FF/orchestrator.py:868-921  which of the stabilization helpers are declared
\* `async def`; _isolate_affected_systems is a plain `def` returning a list
is_coroutine_function ==
    [_isolate_affected_systems |-> FALSE,
     _initiate_system_stabilization |-> TRUE,
     _preserve_incident_evidence |-> TRUE,
     _enhance_system_monitoring |-> TRUE]

\* `await helper(...)`: the value when the helper is a coroutine function; a
\* TypeError ("object list can't be used in 'await' expression") when it is not
await(helper, value) ==
    IF is_coroutine_function[helper]
    THEN [status |-> "returned", value |-> value]
    ELSE [status |-> "raised", error |-> "TypeError"]

\* FF/orchestrator.py:868-879
_isolate_affected_systems ==
    <<"network_segments_isolated", "database_connections_severed",
      "application_services_stopped", "external_integrations_blocked",
      "user_access_restricted">>

\* FF/orchestrator.py:178-203  the substring tests made on an immediate action:
\* the first of the four probes that occurs in it, "" when none does
stabilization_branch(action) ==
    IF action = "Declare emergency state and mobilize response team"
        THEN "Declare emergency state"
    ELSE IF action = "Isolate affected systems to prevent further damage"
        THEN "Isolate affected systems"
    ELSE IF action = "Initiate system stabilization procedures"
        THEN "Initiate system stabilization"
    ELSE ""

\* FF/orchestrator.py:177-203  the loop over the immediate actions, from the
\* k-th action on; a fault leaves the loop and the function
RECURSIVE stabilization_loop(_, _, _)
stabilization_loop(immediate_actions, k, stabilization_actions) ==
    IF k > Len(immediate_actions) THEN stabilization_actions
    ELSE
    LET branch == stabilization_branch(immediate_actions[k])
        initiated == stabilization_actions.actions_initiated
    IN  IF branch = "Declare emergency state"
        THEN stabilization_loop(immediate_actions, k + 1,
                [stabilization_actions EXCEPT
                    !.actions_initiated = Append(initiated, "emergency_state_declared")])
        ELSE IF branch = "Isolate affected systems"
        THEN LET systems_isolated ==
                     await("_isolate_affected_systems", _isolate_affected_systems)
             IN  IF systems_isolated.status = "raised"
                 THEN [stabilization_actions EXCEPT
                          !.status = "raised", !.error = systems_isolated.error]
                 ELSE stabilization_loop(immediate_actions, k + 1,
                        [stabilization_actions EXCEPT
                            !.systems_isolated = systems_isolated.value,
                            !.access_restricted = TRUE])
        ELSE IF branch = "Initiate system stabilization"
        THEN LET stabilization_completed == await("_initiate_system_stabilization", TRUE)
             IN  IF stabilization_completed.status = "raised"
                 THEN [stabilization_actions EXCEPT
                          !.status = "raised", !.error = stabilization_completed.error]
                 ELSE stabilization_loop(immediate_actions, k + 1,
                        [stabilization_actions EXCEPT
                            !.actions_initiated =
                                Append(initiated, "system_stabilization_initiated")])
        ELSE stabilization_loop(immediate_actions, k + 1, stabilization_actions)

\* FF/orchestrator.py:158-232
_implement_stabilization_actions(emergency_assessment, emergency_response) ==
    LET after_loop ==
            stabilization_loop(emergency_response.immediate_actions, 1,
                [status |-> "returned", error |-> "",
                 actions_initiated |-> << >>, systems_isolated |-> << >>,
                 monitoring_enhanced |-> FALSE, access_restricted |-> FALSE,
                 evidence_preserved |-> FALSE])
        with_severity ==
            IF emergency_assessment.severity_level \in {"catastrophic", "critical"}
            THEN [after_loop EXCEPT !.actions_initiated =
                    @ \o <<"disaster_recovery_activated", "executive_management_notified">>]
            ELSE after_loop
        evidence_preserved == await("_preserve_incident_evidence", TRUE)
        monitoring_enhanced == await("_enhance_system_monitoring", TRUE)
    IN  IF after_loop.status = "raised" THEN after_loop
        ELSE IF evidence_preserved.status = "raised"
            THEN [with_severity EXCEPT !.status = "raised", !.error = evidence_preserved.error]
        ELSE IF monitoring_enhanced.status = "raised"
            THEN [with_severity EXCEPT !.status = "raised", !.error = monitoring_enhanced.error]
        ELSE [with_severity EXCEPT !.evidence_preserved = evidence_preserved.value,
                                   !.monitoring_enhanced = monitoring_enhanced.value]

\* The digit runs of the timeline texts the inspector writes, in order of
\* occurrence: what re.findall(r'\d+', timeline) returns (orchestrator.py:592)
re_findall_digits(timeline) ==
    IF timeline = "30 minutes - 2 hours" THEN <<30, 2>>
    ELSE IF timeline = "1-3 hours" THEN <<1, 3>>
    ELSE IF timeline = "4-12 hours" THEN <<4, 12>>
    ELSE IF timeline = "2-6 hours" THEN <<2, 6>>
    ELSE IF timeline = "3-6 hours" THEN <<3, 6>>
    ELSE IF timeline = "2-8 hours" THEN <<2, 8>>
    ELSE << >>

\* FF/orchestrator.py:587-600  units are not looked at: "30 minutes - 2 hours"
\* parses to (30 + 2) // 2 = 16
_parse_timeline_hours(timeline) ==
    LET numbers == re_findall_digits(timeline)
    IN  IF Len(numbers) >= 2 THEN (numbers[1] + numbers[2]) \div 2
        ELSE IF Len(numbers) = 1 THEN numbers[1]
        ELSE 24

\* FF/orchestrator.py:554-557  the key of max()
recovery_key(x) == x.success_probability * (100 - _parse_timeline_hours(x.timeline))

\* FF/orchestrator.py:519-585  the strategy selected: max() returns the first
\* option whose key no other option exceeds; None when there is no option
_begin_recovery_implementation(recovery_analysis) ==
    LET immediate_options == recovery_analysis.immediate_recovery_options
        best == MinOf({i \in DOMAIN immediate_options :
                        \A j \in DOMAIN immediate_options :
                            recovery_key(immediate_options[j])
                                <= recovery_key(immediate_options[i])})
    IN  [recovery_strategy |->
            IF immediate_options # << >> THEN immediate_options[best].option ELSE "None"]

\* FF/orchestrator.py:113  the expression stored under metadata.recovery_strategy
metadata_recovery_strategy(recovery_analysis) ==
    IF recovery_analysis.immediate_recovery_options # << >>
    THEN recovery_analysis.immediate_recovery_options[1].option
    ELSE "unknown"

\* FF/orchestrator.py:32-118  process_signal: the stabilization step comes
\* first and its fault is not caught; the response holds the stabilization
\* record, the recovery implementation and the metadata
ff_orchestrator_process_signal(inspector_payload) ==
    LET stabilization_actions ==
            _implement_stabilization_actions(inspector_payload.emergency_assessment,
                                             inspector_payload.emergency_response)
    IN  IF stabilization_actions.status = "raised"
        THEN [status |-> "raised", error |-> stabilization_actions.error]
        ELSE [status |-> "returned",
              action |-> "emergency_response_initiated",
              stabilization |-> stabilization_actions,
              recovery |->
                  _begin_recovery_implementation(inspector_payload.recovery_analysis),
              metadata |-> [recovery_strategy |->
                  metadata_recovery_strategy(inspector_payload.recovery_analysis)]]

InitFFOrchestrator ==
    /\ InitPrograms
    /\ fn_call \in [fn : {"FFOrchestrator.process_signal",
                          "FFOrchestrator._implement_stabilization_actions",
                          "FFOrchestrator._begin_recovery_implementation"},
                    signal : FFSignals]
    /\ fn_ret = Pending

\* the inspector's payload is handed to the orchestrator
FFOrchestratorProcessSignal ==
    /\ fn_call.fn = "FFOrchestrator.process_signal"
    /\ fn_ret = Pending
    /\ fn_ret' = ff_orchestrator_process_signal(ff_inspector_payload(fn_call.signal))
    /\ UNCHANGED <<usersVars, itemsVars, hfVars, genVars, now, fn_call>>

\* the stabilization step of process_signal (lines 46-48), on its own
FFImplementStabilizationActions ==
    /\ fn_call.fn = "FFOrchestrator._implement_stabilization_actions"
    /\ fn_ret = Pending
    /\ LET inspector_payload == ff_inspector_payload(fn_call.signal)
       IN  fn_ret' = _implement_stabilization_actions(
                        inspector_payload.emergency_assessment,
                        inspector_payload.emergency_response)
    /\ UNCHANGED <<usersVars, itemsVars, hfVars, genVars, now, fn_call>>

\* the recovery step of process_signal (lines 61-63) on its own, together with
\* the metadata expression of line 113 evaluated on the same recovery analysis
FFBeginRecoveryImplementation ==
    /\ fn_call.fn = "FFOrchestrator._begin_recovery_implementation"
    /\ fn_ret = Pending
    /\ LET inspector_payload == ff_inspector_payload(fn_call.signal)
       IN  fn_ret' =
             [status |-> "returned",
              options |-> Len(inspector_payload.recovery_analysis.immediate_recovery_options),
              recovery |->
                  _begin_recovery_implementation(inspector_payload.recovery_analysis),
              metadata |-> [recovery_strategy |->
                  metadata_recovery_strategy(inspector_payload.recovery_analysis)]]
    /\ UNCHANGED <<usersVars, itemsVars, hfVars, genVars, now, fn_call>>

NextFFOrchestrator ==
    \/ FFOrchestratorProcessSignal
    \/ FFImplementStabilizationActions
    \/ FFBeginRecoveryImplementation

SpecFFOrchestrator == InitFFOrchestrator /\ [][NextFFOrchestrator]_vars

\* C21: for every payload the FF inspector produces, the FF orchestrator's
\* stabilization step completes without raising and reports the isolated
\* systems with access_restricted true, evidence_preserved true and
\* monitoring_enhanced true.
C21_StabilizationCompletes ==
    (/\ fn_call.fn = "FFOrchestrator._implement_stabilization_actions"
     /\ fn_ret # Pending)
        => /\ fn_ret.status = "returned"
           /\ fn_ret.systems_isolated = _isolate_affected_systems
           /\ fn_ret.access_restricted
           /\ fn_ret.evidence_preserved
           /\ fn_ret.monitoring_enhanced

\* Every call of process_signal ends in the TypeError of the stabilization step
ProcessSignalAlwaysRaises ==
    (fn_call.fn = "FFOrchestrator.process_signal" /\ fn_ret # Pending)
        => fn_ret.status = "raised" /\ fn_ret.error = "TypeError"

----------------------------------------------------------------------------
(* Users router: GET /me *)

\* the users whose stored record carries the username
UsersNamed(username) == {id \in DOMAIN users_db : users_db[id].username = username}

\* C22: the outcome of GET /me depends only on the username parameter and the
\* user store: it returns the user registered under that username when one
\* exists and 401 otherwise, whatever tokens exist in the token store or are
\* presented with the request.
C22_MeResolvesByUsername ==
    resp.op = "me" =>
        IF UsersNamed(resp.username) # {}
        THEN resp.status = 200 /\ resp.id \in UsersNamed(resp.username)
        ELSE resp.status = 401 /\ resp.id = 0

\* GET /me answers through the username index alone: 200 with the indexed
\* user when the index holds the name, 401 when it does not, with or without
\* tokens in the token store
MeResolvesByUsernameIndex ==
    resp.op = "me" =>
        IF resp.username \in DOMAIN users_by_username
        THEN resp.status = 200 /\ resp.id = users_by_username[resp.username]
        ELSE resp.status = 401 /\ resp.id = 0


----------------------------------------------------------------------------
(* Users router: the life of a token *)

\* C23: verify_token resolves a minted token to its username at every time up
\* to and including its expiry (mint time plus 3600 seconds); the first
\* verification after expiry returns nothing and removes the token from the
\* store, and every later verification of it returns nothing.  Stated on the
\* steps of a run: a login that mints token t stores it with the username of
\* the login and the expiry now + 3600; a stored token keeps both; verifying t
\* answers its username while now <= expiry and otherwise answers nothing and
\* leaves t out of the store; and a token once minted and gone never comes back.
C23_TokenResolvesUntilExpiry ==
    [][\A t \in 1..MaxTokens :
        /\ (minted' = minted + 1 /\ t = minted') =>
                /\ t \notin DOMAIN tokens_db
                /\ t \in DOMAIN tokens_db'
                /\ tokens_db'[t].sub = resp'.username
                /\ tokens_db'[t].expires_at = now + 3600
        /\ (t \in DOMAIN tokens_db /\ t \in DOMAIN tokens_db') =>
                tokens_db'[t] = tokens_db[t]
        /\ (t <= minted /\ t \notin DOMAIN tokens_db) => t \notin DOMAIN tokens_db'
        /\ verify_token(t) =>
                IF t \in DOMAIN tokens_db /\ now <= tokens_db[t].expires_at
                THEN /\ resp'.status = 200
                     /\ resp'.username = tokens_db[t].sub
                     /\ t \in DOMAIN tokens_db'
                ELSE /\ resp'.status = 401
                     /\ resp'.username = Unset
                     /\ t \notin DOMAIN tokens_db'
      ]_vars

\* a token minted at time 0 has been verified past its expiry and is gone
C23_Witness ==
    /\ resp.op = "verify_token"
    /\ resp.status = 401
    /\ resp.token \in 1..minted
    /\ resp.token \notin DOMAIN tokens_db
    /\ now > DefaultExpiry


----------------------------------------------------------------------------
(* Health Feedback orchestrator: which calls start a cycle *)

\* the payloads a handle_signal call is made with in the runs above
AnyHFPayload == HFPayloads(n_calls + 1) \cup {PlainFeedback(n_calls + 1)}

\* C24: an entry is added to the active-cycles map only by a handle_signal
\* call whose priority is at most 70 and whose cycle stage is initialization;
\* a call with priority above 70 takes the high-priority path and adds no
\* cycle even when its stage is initialization, and every other call only
\* logs; each call, on every branch, appends exactly one history entry (the
\* oldest entries giving way once the history is full).
C24_CycleOnlyFromLowPriorityInitialization ==
    [][/\ active_cycles' # active_cycles =>
            \E payload \in AnyHFPayload :
                /\ handle_signal(payload)
                /\ payload.priority <= 70
                /\ payload.cycle_stage = "initialization"
                /\ active_cycles'[now].health_feedback = payload
       /\ health_history' # health_history =>
            \E payload \in AnyHFPayload : handle_signal(payload)
       /\ \A payload \in AnyHFPayload :
            handle_signal(payload) =>
                /\ IF payload.priority > 70
                   THEN /\ active_cycles' = active_cycles
                        /\ hf_resp'.action = "high_priority_health_feedback_initiated"
                        /\ health_checks' = health_checks + 1
                   ELSE IF payload.cycle_stage = "initialization"
                   THEN /\ now \in DOMAIN active_cycles'
                        /\ health_checks' = health_checks
                   ELSE /\ active_cycles' = active_cycles
                        /\ hf_resp'.action = "health_feedback_logged"
                        /\ health_checks' = health_checks
                /\ LET n == Len(health_history')
                   IN  /\ n = (IF Len(health_history) < HistoryLimit
                               THEN Len(health_history) + 1 ELSE HistoryLimit)
                       /\ health_history'[n].signal_id = payload.signal_id
                       /\ health_history'[n].priority = payload.priority
                       /\ \A k \in 1..(n - 1) :
                            health_history'[k] =
                                health_history[Len(health_history) - (n - 1) + k]
      ]_vars

\* two calls have been made, one of them with priority above 70, and the one
\* cycle there is was started by a call of priority at most 70 in stage
\* initialization
C24_Witness ==
    /\ n_calls = 2
    /\ Len(health_history) = 2
    /\ \E k \in 1..2 : health_history[k].priority > 70
    /\ Cardinality(DOMAIN active_cycles) = 1
    /\ \A c \in DOMAIN active_cycles :
          /\ active_cycles[c].health_feedback.priority <= 70
          /\ active_cycles[c].health_feedback.cycle_stage = "initialization"


----------------------------------------------------------------------------
(* JC orchestrator: src/guidelines/EN/signals/JC/orchestrator.py           *)
(*                                                                         *)
(* The file does not compile as it stands (line 740 closes a list with a   *)
(* brace).  The functions below are modelled as written; what they do was  *)
(* observed on a copy with that line repaired.                             *)

\* JC/orchestrator.py:820-827
phases ==
    <<"victory_declaration", "team_recognition", "knowledge_sharing",
      "process_improvements", "future_preparation", "communication_plan">>

\* JC/orchestrator.py:856-861  _execute_phase as shipped only sleeps; `faults`
\* names the phases in which the activity behind it raises an Exception
_execute_phase(phase, faults) == IF phase \in faults THEN "Exception" ELSE "None"

\* JC/orchestrator.py:829-840  one turn of the loop, abandoning the loop at the
\* first phase that faults
execute_phase_step_stopping(run, faults) ==
    LET phase == phases[run.next_phase]
        status == run.execution_status
    IN  IF _execute_phase(phase, faults) = "None"
        THEN [run EXCEPT !.next_phase = @ + 1,
                         !.attempted = Append(@, phase),
                         !.execution_status =
                             [status EXCEPT !.phases_completed = Append(@, phase),
                                            !.current_phase = phase]]
        ELSE [run EXCEPT !.next_phase = Len(phases) + 1,
                         !.attempted = Append(@, phase),
                         !.execution_status =
                             [status EXCEPT !.issues_encountered = Append(@, phase)]]

\* JC/orchestrator.py:829-840  one turn of the loop: the phase is executed under
\* try; on success it is appended to phases_completed and becomes the current
\* phase, on an Exception the message naming it is appended to
\* issues_encountered; either way the loop goes on
execute_phase_step(run, faults) ==
    LET phase == phases[run.next_phase]
        status == run.execution_status
    IN  IF _execute_phase(phase, faults) = "None"
        THEN [run EXCEPT !.next_phase = @ + 1,
                         !.attempted = Append(@, phase),
                         !.execution_status =
                             [status EXCEPT !.phases_completed = Append(@, phase),
                                            !.current_phase = phase]]
        ELSE [run EXCEPT !.next_phase = @ + 1,
                         !.attempted = Append(@, phase),
                         !.execution_status =
                             [status EXCEPT !.issues_encountered = Append(@, phase)]]

\* JC/orchestrator.py:862-874  _generate_celebration_results subscripts every
\* recognition item with ['recognition_type']: KeyError when an item lacks it
_generate_celebration_results(orchestration_plan) ==
    IF \E k \in DOMAIN orchestration_plan.recognition_items :
            "recognition_type" \notin DOMAIN orchestration_plan.recognition_items[k]
    THEN "KeyError"
    ELSE "None"

\* The orchestration plans handed in: their recognition items
OrchestrationPlans ==
    [recognition_items :
        {<< >>,
         <<[recognition_type |-> "individual"]>>,
         <<[recipient |-> "Database Team"]>>}]

PhaseSet == {phases[k] : k \in DOMAIN phases}

InitJCExecution ==
    /\ InitPrograms
    /\ fn_call \in [fn : {"VictoryOrchestrator.execute_victory_orchestration"},
                    faults : SUBSET PhaseSet,
                    orchestration_plan : OrchestrationPlans]
    /\ fn_ret = Pending

JCExecutionCalled == fn_call.fn = "VictoryOrchestrator.execute_victory_orchestration"

\* JC/orchestrator.py:808-817  entry: the execution status is set up
JCStartExecution ==
    /\ JCExecutionCalled
    /\ fn_ret = Pending
    /\ fn_ret' = [status |-> "running", error |-> "None", next_phase |-> 1,
                  attempted |-> << >>,
                  execution_status |->
                      [phases_completed |-> << >>,
                       current_phase |-> "victory_declaration",
                       overall_status |-> "in_progress",
                       issues_encountered |-> << >>]]
    /\ UNCHANGED <<usersVars, itemsVars, hfVars, genVars, now, fn_call>>

\* JC/orchestrator.py:829-840
JCExecutePhase ==
    /\ JCExecutionCalled
    /\ fn_ret.status = "running"
    /\ fn_ret.next_phase <= Len(phases)
    /\ fn_ret' = execute_phase_step(fn_ret, fn_call.faults)
    /\ UNCHANGED <<usersVars, itemsVars, hfVars, genVars, now, fn_call>>

\* JC/orchestrator.py:842-854  after the loop: the overall status is set, the
\* result summaries are built and the function returns; a fault of a summary
\* is logged and raised again by the outer except
JCFinishExecution ==
    /\ JCExecutionCalled
    /\ fn_ret.status = "running"
    /\ fn_ret.next_phase = Len(phases) + 1
    /\ LET fault == _generate_celebration_results(fn_call.orchestration_plan)
       IN  fn_ret' =
             [fn_ret EXCEPT
                !.status = IF fault = "None" THEN "returned" ELSE "raised",
                !.error = fault,
                !.execution_status.overall_status =
                    IF fn_ret.execution_status.issues_encountered = << >>
                    THEN "completed" ELSE "completed_with_issues"]
    /\ UNCHANGED <<usersVars, itemsVars, hfVars, genVars, now, fn_call>>

NextJCExecution ==
    \/ JCStartExecution
    \/ JCExecutePhase
    \/ JCFinishExecution

\* The call runs on an event loop that keeps scheduling it: each await of
\* _execute_phase is a sleep of 0.1 s that completes
SpecJCExecution ==
    InitJCExecution /\ [][NextJCExecution]_vars /\ WF_vars(NextJCExecution)

JCExecutionFinished ==
    JCExecutionCalled /\ fn_ret.status \in {"returned", "raised"}

\* the phases outside `faults`, in the order of `phases`
PhasesWithout(faults) == SelectSeq(phases, LAMBDA phase : phase \notin faults)
PhasesWithin(faults) == SelectSeq(phases, LAMBDA phase : phase \in faults)

\* what C25 says of a call that has ended
VictoryExecutionAsStated ==
    JCExecutionFinished =>
        /\ fn_ret.attempted = phases
        /\ fn_ret.execution_status.issues_encountered = PhasesWithin(fn_call.faults)
        /\ fn_ret.execution_status.phases_completed = PhasesWithout(fn_call.faults)
        /\ fn_ret.execution_status.overall_status =
              (IF fn_ret.execution_status.issues_encountered = << >>
               THEN "completed" ELSE "completed_with_issues")

----------------------------------------------------------------------------
(* Users router: whom a token resolves to *)

\* the id of the user a stored token resolves to: its stored username looked up
\* through get_user_by_username; 0 when the lookup finds no user
TokenResolvesTo(token) == get_user_by_username(tokens_db[token].sub).id

\* C26: after any sequence of register, login, update and delete requests, a
\* token in the token store resolves (by its stored username looked up in the
\* user store) either to the user account whose login minted it or to no user:
\* once that account is deleted or renamed, the token never resolves to a
\* different account, including one later registered under the old username.
C26_TokenResolvesToItsOwnerOrNobody ==
    \A token \in DOMAIN tokens_db :
        TokenResolvesTo(token) \in {0, token_owner[token]}


----------------------------------------------------------------------------
(* aa inspector: the decision options *)

MaxListedOptions == 5   \* option texts a signal lists after "options:"

\* The decisions asked for, and the keywords of _generate_default_options
\* (aa/inspector.py:303-322) occurring in each, lower-cased
DecisionTexts ==
    {"Approve production access", "Budget for new servers",
     "Policy exception for vendor tool",
     "Administrative decision required - specific decision unclear"}

decision_keywords(decision_needed) ==
    IF decision_needed = "Approve production access" THEN {"approve"}
    ELSE IF decision_needed = "Budget for new servers" THEN {"budget"}
    ELSE IF decision_needed = "Policy exception for vendor tool" THEN {"policy"}
    ELSE {}

\* aa/inspector.py:138-158  _extract_options: the option texts found after
\* "options:", split at the separators, at most four of them
_extract_options(listed) == SubSeq(listed, 1, Min2(Len(listed), 4))

\* a generated option
generated(id, description) ==
    [option_id |-> id, description |-> description, source |-> "generated"]

\* aa/inspector.py:297-330
_generate_default_options(decision_needed) ==
    LET keywords == decision_keywords(decision_needed)
    IN  IF keywords \cap {"approve", "authorization"} # {}
        THEN <<generated("A", "Approve the request"),
               generated("B", "Request additional information"),
               generated("C", "Deny the request")>>
        ELSE IF keywords \cap {"resource", "budget"} # {}
        THEN <<generated("A", "Allocate requested resources"),
               generated("B", "Allocate partial resources"),
               generated("C", "Postpone resource allocation"),
               generated("D", "Deny resource request")>>
        ELSE IF keywords \cap {"policy", "compliance"} # {}
        THEN <<generated("A", "Grant policy exception"),
               generated("B", "Request policy modification"),
               generated("C", "Deny policy exception")>>
        ELSE <<generated("A", "Proceed with proposed action"),
               generated("B", "Request additional analysis"),
               generated("C", "Modify approach")>>

\* aa/inspector.py:273-295  provided options get the ids chr(65 + i); with none
\* provided the defaults are taken; with fewer than two options the defaults
\* are appended; at most four options are kept
_generate_decision_options(decision_needed, provided_options) ==
    LET options ==
            IF provided_options # << >>
            THEN [i \in 1..Len(provided_options) |->
                    [option_id |-> option_id(i),
                     description |-> provided_options[i],
                     source |-> "provided"]]
            ELSE _generate_default_options(decision_needed)
        enough ==
            IF Len(options) < 2
            THEN options \o _generate_default_options(decision_needed)
            ELSE options
    IN  SubSeq(enough, 1, Min2(Len(enough), 4))

ListedOptions ==
    UNION {[1..n -> {"restart", "roll back"}] : n \in 0..MaxListedOptions}

InitAAOptions ==
    /\ InitPrograms
    /\ fn_call \in [fn : {"AAInspector._generate_decision_options"},
                    decision_needed : DecisionTexts,
                    listed : ListedOptions]
    /\ fn_ret = Pending

\* aa/inspector.py:48-62  process_signal: the options are extracted from the
\* signal text and the decision options generated from them
AAGenerateDecisionOptions ==
    /\ fn_call.fn = "AAInspector._generate_decision_options"
    /\ fn_ret = Pending
    /\ fn_ret' = [status |-> "returned",
                  decision_options |->
                      _generate_decision_options(fn_call.decision_needed,
                                                 _extract_options(fn_call.listed))]
    /\ UNCHANGED <<usersVars, itemsVars, hfVars, genVars, now, fn_call>>

NextAAOptions == AAGenerateDecisionOptions
SpecAAOptions == InitAAOptions /\ [][NextAAOptions]_vars

AAOptionsReturned ==
    fn_call.fn = "AAInspector._generate_decision_options" /\ fn_ret.status = "returned"

\* C27: in every aa inspector payload the option_id values of decision_options
\* are pairwise distinct and there are between 2 and 4 options, so
\* recommended_option names exactly one option; this holds whether the signal
\* text provides zero, one or several options.
C27_OptionIdsDistinct ==
    AAOptionsReturned =>
        LET options == fn_ret.decision_options
        IN  /\ Len(options) \in 2..4
            /\ \A i, j \in DOMAIN options :
                  options[i].option_id = options[j].option_id => i = j

\* The part of C27 that holds: there are always between 2 and 4 options, and
\* their ids are distinct unless the signal text provides exactly one option
OptionIdsDistinctUnlessOneProvided ==
    AAOptionsReturned =>
        LET options == fn_ret.decision_options
        IN  /\ Len(options) \in 2..4
            /\ Len(fn_call.listed) # 1 =>
                  \A i, j \in DOMAIN options :
                      options[i].option_id = options[j].option_id => i = j


----------------------------------------------------------------------------
(* Victory declaration: guidelines/EN/signals/JC/orchestrator.py, fed with *)
(* the assessment guidelines/EN/signals/JC/inspector.py compiles.          *)
(*                                                                         *)
(* Component scores are floats of 0..100 points. The completeness score is *)
(* kept in hundredths of a point and the weighted total in ten-thousandths *)
(* of a point; round(total_score, 1) brings it back to tenths.             *)

_score_resolution_completeness(resolution_validation) ==
    LET systems_healthy == resolution_validation.systems_healthy
        data_integrity == resolution_validation.data_integrity
        health_score == systems_healthy.health_percentage
        data_score ==
            100 - (IF data_integrity.data_loss_detected THEN 30 ELSE 0)
                - (IF data_integrity.corruption_detected THEN 20 ELSE 0)
                - (IF data_integrity.backup_recovery_required THEN 10 ELSE 0)
    IN  health_score * 6 + data_score * 40

round_1(total_score) ==
    LET below == total_score \div 1000
        rest == total_score % 1000
    IN  IF rest > 500 \/ (rest = 500 /\ below % 2 = 1) THEN below + 1 ELSE below

_calculate_victory_score(resolution_validation, score_components) ==
    LET total_score ==
            _score_resolution_completeness(resolution_validation) * 30
                + score_components.system_recovery * 2500
                + score_components.team_performance * 2000
                + score_components.lessons_learned * 1500
                + score_components.resolution_effectiveness * 1000
    IN  round_1(total_score)

analyze_victory(resolution_validation, score_components) ==
    LET victory_score ==
            _calculate_victory_score(resolution_validation, score_components)
    IN  [victory_assessment |->
            [resolution_status |->
                 _determine_resolution_status(resolution_validation, victory_score),
             victory_score |-> victory_score]]

_declare_victory(victory_assessment) ==
    LET victory_score == victory_assessment.victory_assessment.victory_score
        resolution_status == victory_assessment.victory_assessment.resolution_status
        tier == IF victory_score >= Tenths(90) THEN <<"Complete Victory", "maximum">>
                ELSE IF victory_score >= Tenths(75) THEN <<"Major Victory", "high">>
                ELSE IF victory_score >= Tenths(60) THEN <<"Partial Victory", "moderate">>
                ELSE IF victory_score >= Tenths(45) THEN <<"Limited Victory", "standard">>
                ELSE <<"Ongoing Recovery", "minimal">>
    IN  [status |-> "returned",
         victory_classification |-> tier[1],
         victory_score |-> victory_score,
         resolution_status |-> resolution_status,
         celebration_level |-> tier[2]]

\* Inputs: the validation of the system health data, and the four component
\* scores that do not depend on it (whole, even points).
DataIntegrities ==
    [data_loss_detected : BOOLEAN, corruption_detected : BOOLEAN,
     backup_recovery_required : BOOLEAN]
VictoryValidations ==
    [systems_healthy :
        [remaining_issues : RemainingIssues, health_percentage : HealthPercentages],
     data_integrity : DataIntegrities]
ScoreComponents ==
    [system_recovery : {82, 100}, team_performance : {50, 100},
     lessons_learned : {50, 100}, resolution_effectiveness : {50, 100}]

InitJCVictory ==
    /\ InitPrograms
    /\ fn_call \in [fn : {"VictoryOrchestrator._declare_victory"},
                    resolution_validation : VictoryValidations,
                    score_components : ScoreComponents]
    /\ fn_ret = Pending

JCDeclareVictory ==
    /\ fn_call.fn = "VictoryOrchestrator._declare_victory"
    /\ fn_ret = Pending
    /\ fn_ret' = _declare_victory(analyze_victory(fn_call.resolution_validation,
                                                  fn_call.score_components))
    /\ UNCHANGED <<usersVars, itemsVars, hfVars, genVars, now, fn_call>>

NextJCVictory == JCDeclareVictory
SpecJCVictory == InitJCVictory /\ [][NextJCVictory]_vars

JCVictoryDeclared ==
    fn_call.fn = "VictoryOrchestrator._declare_victory" /\ fn_ret.status = "returned"

ClassificationOf(resolution_status) ==
    CASE resolution_status = "complete_victory" -> <<"Complete Victory", "maximum">>
      [] resolution_status = "major_victory" -> <<"Major Victory", "high">>
      [] resolution_status = "partial_victory" -> <<"Partial Victory", "moderate">>
      [] resolution_status = "limited_victory" -> <<"Limited Victory", "standard">>
      [] resolution_status = "ongoing_recovery" -> <<"Ongoing Recovery", "minimal">>

(* C29: for every assessment the inspector produces, the orchestrator's    *)
(* victory classification and celebration level are the ones of the        *)
(* inspector's resolution status; in particular a status ongoing_recovery  *)
(* is declared Ongoing Recovery with minimal celebration.                  *)
C29_ClassificationAgreesWithStatus ==
    JCVictoryDeclared =>
        /\ fn_ret.victory_classification
               = ClassificationOf(fn_ret.resolution_status)[1]
        /\ fn_ret.celebration_level
               = ClassificationOf(fn_ret.resolution_status)[2]

\* What the declaration does guarantee: the classification is the tier of the
\* score alone, so it agrees with the status when no issue remains and the
\* health percentage is at least 90.
ClassificationAgreesOnHealthySystems ==
    JCVictoryDeclared =>
        LET health == fn_call.resolution_validation.systems_healthy
        IN  (health.remaining_issues = << >> /\ health.health_percentage >= Tenths(90))
                => /\ fn_ret.victory_classification
                          = ClassificationOf(fn_ret.resolution_status)[1]
                   /\ fn_ret.celebration_level
                          = ClassificationOf(fn_ret.resolution_status)[2]

\* The status is the inspector's, copied unchanged.
DeclarationCarriesInspectorStatus ==
    JCVictoryDeclared =>
        fn_ret.resolution_status
            = _determine_resolution_status(fn_call.resolution_validation,
                                           fn_ret.victory_score)


----------------------------------------------------------------------------
(* Health feedback inspector: guidelines/EN/signals/HF/inspector.py, and   *)
(* its payload handed to the orchestrator's handle_signal.                 *)
(*                                                                         *)
(* The functions are modelled as their bodies are written.  As shipped the *)
(* module cannot be imported: _generate_recommendations is annotated       *)
(* -> List[str] (line 137) and List is not among the names imported from   *)
(* typing (line 9), so the class body raises NameError.                    *)
(*                                                                         *)
(* A text is the sequence of its characters; `keyword in text` is the      *)
(* substring test of Python.                                               *)

MaxContextWords == 3   \* words in the context of a signal

chars_unhealthy == <<"u", "n", "h", "e", "a", "l", "t", "h", "y">>
chars_Unhealthy == <<"U", "n", "h", "e", "a", "l", "t", "h", "y">>
chars_healthy == <<"h", "e", "a", "l", "t", "h", "y">>
chars_critical == <<"c", "r", "i", "t", "i", "c", "a", "l">>
chars_error == <<"e", "r", "r", "o", "r">>
chars_failure == <<"f", "a", "i", "l", "u", "r", "e">>
chars_down == <<"d", "o", "w", "n">>
chars_start == <<"s", "t", "a", "r", "t">>
chars_running == <<"r", "u", "n", "n", "i", "n", "g">>
chars_complete == <<"c", "o", "m", "p", "l", "e", "t", "e">>

\* str.lower, on the capitals the contexts below use
lower(text) ==
    [i \in DOMAIN text |-> IF text[i] = "U" THEN "u" ELSE text[i]]

\* keyword in text
in(keyword, text) ==
    \E i \in 1..(Len(text) - Len(keyword) + 1) :
        SubSeq(text, i, i + Len(keyword) - 1) = keyword

critical_keywords ==
    <<chars_critical, chars_error, chars_failure, chars_down, chars_unhealthy>>

Min(a, b) == IF a <= b THEN a ELSE b

_calculate_priority(context) ==
    LET default_priority == 3
        base_priority == default_priority * 10
        hits == {k \in DOMAIN critical_keywords :
                     in(lower(critical_keywords[k]), lower(context))}
    IN  Min(100, base_priority + 20 * Cardinality(hits))

_extract_health_indicators(context) ==
    [system_status |->
         IF in(chars_healthy, lower(context)) THEN "healthy"
         ELSE IF in(chars_unhealthy, lower(context)) \/ in(chars_error, lower(context))
             THEN "unhealthy"
         ELSE "unknown"]

_determine_cycle_stage(context) ==
    IF in(chars_start, lower(context)) THEN "initialization"
    ELSE IF in(chars_running, lower(context)) THEN "active"
    ELSE IF in(chars_complete, lower(context)) THEN "completed"
    ELSE "unknown"

\* process_signal: the fields of the payload that handle_signal reads
hf_process_signal(signal) ==
    [signal_id |-> signal.id,
     priority |-> _calculate_priority(signal.context),
     cycle_stage |-> _determine_cycle_stage(signal.context),
     system_status |-> _extract_health_indicators(signal.context).system_status]

\* Contexts: up to MaxContextWords words, separated by blanks
ContextWords ==
    {chars_unhealthy, chars_Unhealthy, chars_healthy, chars_critical,
     chars_error, chars_failure, chars_start}

RECURSIVE join(_)
join(words) ==
    IF words = << >> THEN << >>
    ELSE IF Len(words) = 1 THEN words[1]
    ELSE words[1] \o <<" ">> \o join(Tail(words))

Contexts ==
    {join(words) : words \in UNION {[1..n -> ContextWords] : n \in 0..MaxContextWords}}

InitHFPipeline ==
    /\ InitPrograms
    /\ fn_call \in [fn : {"HealthFeedbackInspector.process_signal"},
                    signal : [id : {1}, context : Contexts]]
    /\ fn_ret = Pending

HFInspectorProcessSignal ==
    /\ fn_call.fn = "HealthFeedbackInspector.process_signal"
    /\ fn_ret = Pending
    /\ fn_ret' = [status |-> "returned", payload |-> hf_process_signal(fn_call.signal)]
    /\ UNCHANGED <<usersVars, itemsVars, hfVars, genVars, now, fn_call>>

\* The payload the inspector returned is handed to the orchestrator, once
HFHandleInspected ==
    /\ fn_call.fn = "HealthFeedbackInspector.process_signal"
    /\ fn_ret # Pending
    /\ n_calls = 0
    /\ handle_signal(fn_ret.payload)

NextHFPipeline ==
    \/ HFInspectorProcessSignal
    \/ HFHandleInspected
    \/ InitializeComponent
    \/ CycleStartReturn
    \/ run_system_health_check

SpecHFPipeline == InitHFPipeline /\ [][NextHFPipeline]_vars

HFInspected ==
    fn_call.fn = "HealthFeedbackInspector.process_signal" /\ fn_ret # Pending
HFHandled == HFInspected /\ n_calls = 1
AdminEscalated == hf_resp.admin_notification

(* C30: whenever the context of a health feedback signal contains the word *)
(* unhealthy, the inspector reports system_status unhealthy, and once the  *)
(* orchestrator has handled such a payload of priority above 70 it has     *)
(* taken the admin-escalation step.                                        *)
C30_UnhealthyContextEscalates ==
    (HFInspected /\ in(chars_unhealthy, lower(fn_call.signal.context))) =>
        /\ fn_ret.payload.system_status = "unhealthy"
        /\ (HFHandled /\ fn_ret.payload.priority > 70) => AdminEscalated

\* What the inspector does: healthy is tested first and is a substring of
\* unhealthy, so a context holding either word is reported healthy; unhealthy
\* is reported only for a context that holds error and neither word.
HealthyShadowsUnhealthy ==
    HFInspected =>
        LET context == lower(fn_call.signal.context)
            system_status == fn_ret.payload.system_status
        IN  /\ in(chars_unhealthy, context) => system_status = "healthy"
            /\ system_status = "unhealthy" <=>
                   (in(chars_error, context) /\ ~in(chars_healthy, context))

\* The orchestrator escalates exactly the payloads of priority above 70 that
\* report unhealthy.
EscalationFollowsReportedStatus ==
    HFHandled =>
        (AdminEscalated <=>
            (fn_ret.payload.priority > 70 /\ fn_ret.payload.system_status = "unhealthy"))

\* Such a payload: error, critical and failure without healthy.
EscalatedPayload == HFHandled /\ AdminEscalated

====
